---- MODULE Spec2Model ----
(***************************************************************************)
(* A model of cargo-doc-mcp's documentation cache (src/src/cache.ts,       *)
(* class DocCache) and of the coordinator built on it                      *)
(* (src/src/doc-manager.ts, class DocManager).                             *)
(*                                                                         *)
(* Strings are TLC strings; the cache key is built by concatenation as in  *)
(* the source.  The store file holds JSON text; the model keeps the store  *)
(* value that text denotes (entries hold only strings, an integer and a    *)
(* boolean, which JSON.stringify/JSON.parse carry over unchanged).         *)
(* Time is the value Date.now() returns, in milliseconds.                  *)
(***************************************************************************)
EXTENDS Integers, Sequences, FiniteSets, TLC

VARIABLES
    now,        \* the clock: what Date.now() returns
    cache,      \* DocCache.cache, the in-memory store: key -> entry
    file,       \* the store file under os.tmpdir()
    started,    \* main(): "new", "running" (initialized) or "exited"
    hist,       \* history of the DocCache calls, for the claims about set
    lastOp,     \* the operation that has just completed: inputs, outcome, effects
    procs,      \* the server processes sharing the store file: each one's
                \* main() and DocCache.cache
    tasks,      \* the requests in flight, each at the await it is suspended at
    wrote       \* history of the writes of the store file the requests made

\* what the specifications of a single server running its calls one by one
\* leave alone
asyncVars == <<procs, tasks, wrote>>

vars == <<now, cache, file, started, hist, lastOp, procs, tasks, wrote>>

----------------------------------------------------------------------------
(* Bounds of the model *)

\* the clock runs over the first MaxMs milliseconds of a day
MaxMs == 1

----------------------------------------------------------------------------
(* Program constants and input domains *)

\* DocCache.CACHE_TTL = 24 * 60 * 60 * 1000
CACHE_TTL == 86400000

\* project paths and crate names the requests are drawn from
Projects == {"a"}
Crates == {"c"}

\* the (projectPath, crateName) pairs the DocCache calls are drawn from: the
\* requests' pair and two with the ':' at different places of the same text
CachePairs == (Projects \X Crates) \cup {<<"a:b", "c">>, <<"a", "b:c">>}

\* target directories the metadata query may report
TargetDirs == {"/t"}

\* how far one step of the clock moves it
Steps == {1, CACHE_TTL}

\* the clock's values: the start of a day and of the next, and what follows
Clock == {k * CACHE_TTL + m : k \in {0, 1}, m \in 0..MaxMs}

\* outcome of one fs.writeFile of the store file: written; failed leaving the
\* file as it was; failed after truncating it
WriteOutcomes == {"ok", "fail", "torn"}

----------------------------------------------------------------------------
(* Values *)

NoEntry == [absent |-> TRUE]

IsEntry(e) == "crateName" \in DOMAIN e

EmptyStore == [k \in {} |-> NoEntry]

Delete(mem, k) == [x \in (DOMAIN mem) \ {k} |-> mem[x]]

\* Put that does not overwrite: an entry the store holds under k stays
Put_keepsExisting(mem, k, e) ==
    [x \in (DOMAIN mem) \cup {k} |-> IF x = k /\ k \notin DOMAIN mem THEN e ELSE mem[x]]

\* Put leaving the new entry alone in the store
Put_alone(mem, k, e) == [x \in {k} |-> e]

Put(mem, k, e) == [x \in (DOMAIN mem) \cup {k} |-> IF x = k THEN e ELSE mem[x]]

NoFile == [kind |-> "absent", data |-> EmptyStore]

CorruptFile == [kind |-> "corrupt", data |-> EmptyStore]

\* a store file fs.readFile fails on although it exists (EACCES, EISDIR)
UnreadableFile == [kind |-> "unreadable", data |-> EmptyStore]

JsonFile(mem) == [kind |-> "json", data |-> mem]

\* DocPathOf without the 'doc' component
DocPathOf_noDocDir(targetDir, crateName) ==
    [dir |-> targetDir \o "/" \o crateName, base |-> "index.html"]

\* path.join(targetDir, 'doc', crateName, 'index.html'): a path is kept as
\* its directory and its last component, the two parts path.dirname and
\* path.basename take apart
DocPathOf(targetDir, crateName) ==
    [dir |-> targetDir \o "/doc/" \o crateName, base |-> "index.html"]

\* path.dirname
dirname(path) == path.dir

MkEntry(p, c, docPath, t, built) ==
    [crateName |-> c, projectPath |-> p, docPath |-> docPath,
     lastBuildTime |-> t, isBuilt |-> built]

----------------------------------------------------------------------------
(* DocCache *)

getCacheKey(projectPath, crateName) == projectPath \o ":" \o crateName

\* Expired with the entry already expired at the age of CACHE_TTL
Expired_atTTL(e, t) == t - e.lastBuildTime >= CACHE_TTL

\* the test of get and cleanup: Date.now() - entry.lastBuildTime > CACHE_TTL
Expired(e, t) == t - e.lastBuildTime > CACHE_TTL

\* save adding the store to what the file holds
save_merging(mem, f, w) ==
    IF w = "ok" THEN [file |-> JsonFile(mem @@ f.data), err |-> "none"]
    ELSE [file |-> IF w = "torn" THEN CorruptFile ELSE f, err |-> "CACHE_ERROR"]

\* DocCache.save: the whole store replaces the file, or the write fails
save(mem, f, w) ==
    IF w = "ok" THEN [file |-> JsonFile(mem), err |-> "none"]
    ELSE [file |-> IF w = "torn" THEN CorruptFile ELSE f, err |-> "CACHE_ERROR"]

\* DocCache.get at time t; w is the outcome of the write it may make
get(mem, f, t, projectPath, crateName, w) ==
    LET key == getCacheKey(projectPath, crateName) IN
    IF key \notin DOMAIN mem
    THEN [cache |-> mem, file |-> f, err |-> "none", ret |-> NoEntry, writes |-> 0]
    ELSE IF Expired(mem[key], t)
    THEN LET m2 == Delete(mem, key)
             s == save(m2, f, w)
         IN [cache |-> m2, file |-> s.file, err |-> s.err, ret |-> NoEntry,
             writes |-> 1]
    ELSE [cache |-> mem, file |-> f, err |-> "none", ret |-> mem[key], writes |-> 0]

\* set without the stamp: the entry keeps the lastBuildTime it came with
set_keepsSuppliedTime(mem, f, t, entry, w) ==
    LET key == getCacheKey(entry.projectPath, entry.crateName)
        m2 == Put(mem, key, entry)
        s == save(m2, f, w)
    IN [cache |-> m2, file |-> s.file, err |-> s.err, ret |-> NoEntry, writes |-> 1]

\* set stamping a new entry only: an entry it overwrites keeps its stamp
set_keepsFirstStamp(mem, f, t, entry, w) ==
    LET key == getCacheKey(entry.projectPath, entry.crateName)
        stamp == IF key \in DOMAIN mem THEN mem[key].lastBuildTime ELSE t
        m2 == Put(mem, key, [entry EXCEPT !.lastBuildTime = stamp])
        s == save(m2, f, w)
    IN [cache |-> m2, file |-> s.file, err |-> s.err, ret |-> NoEntry, writes |-> 1]

\* set taking the entry back out of the store when the write fails
set_rollsBack(mem, f, t, entry, w) ==
    LET key == getCacheKey(entry.projectPath, entry.crateName)
        m2 == Put(mem, key, [entry EXCEPT !.lastBuildTime = t])
        s == save(m2, f, w)
    IN [cache |-> IF s.err = "none" THEN m2 ELSE mem, file |-> s.file, err |-> s.err,
        ret |-> NoEntry, writes |-> 1]

\* DocCache.set at time t
set(mem, f, t, entry, w) ==
    LET key == getCacheKey(entry.projectPath, entry.crateName)
        m2 == Put(mem, key, [entry EXCEPT !.lastBuildTime = t])
        s == save(m2, f, w)
    IN [cache |-> m2, file |-> s.file, err |-> s.err, ret |-> NoEntry, writes |-> 1]

\* DocCache.remove
remove(mem, f, projectPath, crateName, w) ==
    LET key == getCacheKey(projectPath, crateName)
        m2 == Delete(mem, key)
        s == save(m2, f, w)
    IN [cache |-> m2, file |-> s.file, err |-> s.err, ret |-> NoEntry, writes |-> 1]

\* cleanup without its save: the purge stays in memory
cleanup_noSave(mem, f, t, w) ==
    [cache |-> [k \in {x \in DOMAIN mem : ~Expired(mem[x], t)} |-> mem[k]],
     file |-> f, err |-> "none", ret |-> NoEntry, writes |-> 0]

\* DocCache.cleanup at time t
cleanup(mem, f, t, w) ==
    LET keep == {k \in DOMAIN mem : ~Expired(mem[k], t)}
        m2 == [k \in keep |-> mem[k]]
        changed == keep # DOMAIN mem
        s == save(m2, f, w)
    IN IF changed
       THEN [cache |-> m2, file |-> s.file, err |-> s.err, ret |-> NoEntry,
             writes |-> 1]
       ELSE [cache |-> m2, file |-> f, err |-> "none", ret |-> NoEntry, writes |-> 0]

\* initialize taking every failure of the read or the parse for a missing
\* file
initialize_anyFailureEmpty(mem, f, t, w) ==
    IF f.kind # "json"
    THEN [cache |-> EmptyStore, file |-> f, err |-> "none", ret |-> NoEntry,
          writes |-> 0]
    ELSE cleanup(f.data, f, t, w)

\* DocCache.initialize at time t: a missing file is an empty store, any
\* other failure of the read, the parse or the cleanup is a CacheError
initialize(mem, f, t, w) ==
    IF f.kind = "absent"
    THEN [cache |-> EmptyStore, file |-> f, err |-> "none", ret |-> NoEntry,
          writes |-> 0]
    ELSE IF f.kind \in {"corrupt", "unreadable"}
    THEN [cache |-> mem, file |-> f, err |-> "CACHE_ERROR", ret |-> NoEntry,
          writes |-> 0]
    ELSE cleanup(f.data, f, t, w)

----------------------------------------------------------------------------
(* What a call gives its caller *)

Void == [kind |-> "void"]

RetEntry(e) == [kind |-> "entry", val |-> e]

RetBool(b) == [kind |-> "bool", val |-> b]

RetPath(path) == [kind |-> "path", val |-> path]

RetList(items) == [kind |-> "list", val |-> items]

Err(code) == [kind |-> "err", code |-> code]

NoArg == [none |-> TRUE]

----------------------------------------------------------------------------
(* Text.  File names, symbol names and file contents are sequences of      *)
(* one-character strings, so that the code's matching can be computed.     *)

StartsWith(s, pre) == Len(s) >= Len(pre) /\ SubSeq(s, 1, Len(pre)) = pre

EndsWith(s, suf) ==
    Len(s) >= Len(suf) /\ SubSeq(s, Len(s) - Len(suf) + 1, Len(s)) = suf

\* String.prototype.includes
Includes(s, q) == \E i \in 0..(Len(s) - Len(q)) : SubSeq(s, i + 1, i + Len(q)) = q

Upper == <<"A", "B", "C", "D", "E", "F", "G", "H", "I", "J", "K", "L", "M",
           "N", "O", "P", "Q", "R", "S", "T", "U", "V", "W", "X", "Y", "Z">>

Lower == <<"a", "b", "c", "d", "e", "f", "g", "h", "i", "j", "k", "l", "m",
           "n", "o", "p", "q", "r", "s", "t", "u", "v", "w", "x", "y", "z">>

\* the small letter of each capital
LowerOf == [ch \in {Upper[k] : k \in 1..Len(Upper)} |->
               Lower[CHOOSE k \in 1..Len(Upper) : Upper[k] = ch]]

\* toLowerCase left out: the text as it is
toLowerCase_asIs(s) == s

\* String.prototype.toLowerCase, on ASCII text
toLowerCase(s) ==
    [i \in 1..Len(s) |-> IF s[i] \in DOMAIN LowerOf THEN LowerOf[s[i]] ELSE s[i]]

\* replaceHyphens without the g flag: the first hyphen only
replaceHyphens_first(s) ==
    IF \E i \in 1..Len(s) : s[i] = "-"
    THEN LET i == CHOOSE k \in 1..Len(s) : s[k] = "-" /\ \A j \in 1..(k - 1) : s[j] # "-"
         IN SubSeq(s, 1, i - 1) \o <<":", ":">> \o SubSeq(s, i + 1, Len(s))
    ELSE s

\* name.replace(/-/g, '::')
RECURSIVE replaceHyphens(_)
replaceHyphens(s) ==
    IF s = <<>> THEN <<>>
    ELSE (IF Head(s) = "-" THEN <<":", ":">> ELSE <<Head(s)>>)
         \o replaceHyphens(Tail(s))

Html == <<".", "h", "t", "m", "l">>

IndexHtml == <<"i", "n", "d", "e", "x">> \o Html

\* path.basename(fileName, '.html')
basename(fileName) ==
    IF EndsWith(fileName, Html) /\ fileName # Html
    THEN SubSeq(fileName, 1, Len(fileName) - Len(Html))
    ELSE fileName

\* the collation weight of a character: punctuation, then digits, then
\* letters, a letter and its capital sharing a weight
Alphabet == <<"_", "-", ":", ".", "0", "1", "2", "3", "4", "5", "6", "7", "8",
              "9">> \o Lower

WeightOf == [ch \in {Alphabet[k] : k \in 1..Len(Alphabet)} |->
                CHOOSE k \in 1..Len(Alphabet) : Alphabet[k] = ch]

Weight(ch) ==
    LET l == toLowerCase(<<ch>>)[1] IN
    IF l \in DOMAIN WeightOf THEN WeightOf[l] ELSE 0

\* lexicographic comparison of two sequences of numbers: -1, 0 or 1
RECURSIVE compareSeq(_, _)
compareSeq(a, b) ==
    IF a = <<>> /\ b = <<>> THEN 0
    ELSE IF a = <<>> THEN -1
    ELSE IF b = <<>> THEN 1
    ELSE IF Head(a) < Head(b) THEN -1
    ELSE IF Head(a) > Head(b) THEN 1
    ELSE compareSeq(Tail(a), Tail(b))

\* String.prototype.localeCompare: by the letters first, and between texts
\* with the same letters the one with the earlier small letter first
localeCompare(a, b) ==
    LET primary == compareSeq([i \in 1..Len(a) |-> Weight(a[i])],
                              [i \in 1..Len(b) |-> Weight(b[i])])
        case(s) == [i \in 1..Len(s) |-> IF toLowerCase(<<s[i]>>) = <<s[i]>> THEN 0 ELSE 1]
    IN IF primary # 0 THEN primary ELSE compareSeq(case(a), case(b))

\* Array.prototype.sort with a comparator (x, y) => x.k.localeCompare(y.k),
\* k being the path of a symbol or the title of a search result: each
\* element is put after those not greater than it (the sort is stable).
\* keys are the k of the items, in the same order.
RECURSIVE insertSorted(_, _)
insertSorted(sorted, x) ==
    IF sorted = <<>> THEN <<x>>
    ELSE IF localeCompare(x.key, Head(sorted).key) < 0 THEN <<x>> \o sorted
    ELSE <<Head(sorted)>> \o insertSorted(Tail(sorted), x)

RECURSIVE sortKeyed(_)
sortKeyed(pairs) ==
    IF pairs = <<>> THEN <<>>
    ELSE insertSorted(sortKeyed(SubSeq(pairs, 1, Len(pairs) - 1)), pairs[Len(pairs)])

\* sortBy left out: the items as they were pushed
sortBy_asPushed(items, keys) == items

sortBy(items, keys) ==
    LET sorted == sortKeyed([i \in 1..Len(items) |-> [key |-> keys[i], val |-> items[i]]])
    IN [i \in 1..Len(sorted) |-> sorted[i].val]

----------------------------------------------------------------------------
(* The documentation tree and its traversal *)

\* a directory entry: a file with its content, or a directory with its
\* entries in the order fs.readdir reports them; ok is whether reading the
\* file, or listing the directory, succeeds
File(name, text, ok) ==
    [name |-> name, isDir |-> FALSE, ok |-> ok, text |-> text, kids |-> <<>>]

Dir(name, kids, ok) ==
    [name |-> name, isDir |-> TRUE, ok |-> ok, text |-> <<>>, kids |-> kids]

SymbolTypes ==
    {<<"s", "t", "r", "u", "c", "t">>, <<"e", "n", "u", "m">>,
     <<"t", "r", "a", "i", "t">>, <<"f", "n">>, <<"c", "o", "n", "s", "t">>,
     <<"t", "y", "p", "e">>, <<"m", "a", "c", "r", "o">>, <<"m", "o", "d">>}

NoSymbol == [none |-> TRUE]

\* the scheme prefix of a rustdoc URL: 'rustdoc://'
Scheme == <<"r", "u", "s", "t", "d", "o", "c", ":", "/", "/">>

\* RustdocUrl.create on text: `rustdoc://${docPath}`
create(docPath) == Scheme \o docPath

\* where pat occurs in s: the indexes of the first character of each
\* occurrence
OccursAt(s, pat) ==
    {i \in 1..(Len(s) - Len(pat) + 1) : SubSeq(s, i, i + Len(pat) - 1) = pat}

Least(S) == CHOOSE i \in S : \A j \in S : i <= j

Greatest(S) == CHOOSE i \in S : \A j \in S : i >= j

\* replace taking out the last occurrence of pat
replace_last(s, pat) ==
    IF OccursAt(s, pat) = {} THEN s
    ELSE SubSeq(s, 1, Greatest(OccursAt(s, pat)) - 1)
         \o SubSeq(s, Greatest(OccursAt(s, pat)) + Len(pat), Len(s))

\* String.prototype.replace(pat, '') with a string pattern: the first
\* occurrence of pat is taken out
replace(s, pat) ==
    IF OccursAt(s, pat) = {} THEN s
    ELSE SubSeq(s, 1, Least(OccursAt(s, pat)) - 1)
         \o SubSeq(s, Least(OccursAt(s, pat)) + Len(pat), Len(s))

\* the Error RustdocUrl.parse throws
InvalidUri(url) ==
    [kind |-> "err", name |-> "Error", message |-> "Invalid rustdoc URI format",
     url |-> url]

\* RustdocUrl.parse
parse(url) ==
    IF ~StartsWith(url, Scheme) THEN InvalidUri(url)
    ELSE RetPath(replace(url, Scheme))

\* RustdocUrl.create(filePath) for the indexer, which holds a file path as
\* the directory the traversal started in and the components below it:
\* the URL is kept as its scheme prefix and that path
RustdocUrlCreate(filePath) == [scheme |-> "rustdoc://", path |-> filePath]

\* the text of a crate name
CrateText(c) ==
    IF c = "c" THEN <<"c">>
    ELSE IF c = "my-crate" THEN <<"m", "y", "-", "c", "r", "a", "t", "e">>
    ELSE <<"b", ":", "c">>

\* the characters the . of a regular expression does not match
LineTerminators == {"\n", "\r"}

\* DocManager.parseSymbolFromFile: fileName matches
\* /^(struct|enum|trait|fn|const|type|macro|mod)\.(.+)\.html$/
parseSymbolFromFile(fileName, modulePath, crateName, filePath) ==
    LET types == {k \in SymbolTypes :
                    /\ StartsWith(fileName, k \o <<".">>)
                    /\ EndsWith(fileName, Html)
                    /\ Len(fileName) >= Len(k) + 1 + 1 + Len(Html)
                    /\ \A i \in (Len(k) + 2)..(Len(fileName) - Len(Html)) :
                          fileName[i] \notin LineTerminators}
    IN IF types = {} THEN NoSymbol
       ELSE LET type == CHOOSE k \in types : TRUE
                name == SubSeq(fileName, Len(type) + 2, Len(fileName) - Len(Html))
                symbolName == replaceHyphens(name)
                fullPath == IF modulePath # <<>>
                            THEN crateName \o <<":", ":">> \o modulePath
                                 \o <<":", ":">> \o symbolName
                            ELSE crateName \o <<":", ":">> \o symbolName
            IN [name |-> symbolName, type |-> type, path |-> fullPath,
                url |-> RustdocUrlCreate(filePath)]

\* SkipDirs without the trait-implementor directory
SkipDirs_srcOnly == {<<"s", "r", "c">>}

\* traverseDirectory: entry.name === 'src' || entry.name === 'implementors'
SkipDirs == {<<"s", "r", "c">>,
             <<"i", "m", "p", "l", "e", "m", "e", "n", "t", "o", "r", "s">>}

ReaddirStep(ok, dirPath) ==
    [kind |-> "readdir", ok |-> ok, name |-> <<>>, path |-> dirPath,
     modulePath |-> <<>>, text |-> <<>>]

FileStep(e, filePath, modulePath) ==
    [kind |-> "file", ok |-> e.ok, name |-> e.name, path |-> filePath,
     modulePath |-> modulePath, text |-> e.text]

\* a traversal stops at a directory that cannot be listed
Stopped(steps) ==
    /\ steps # <<>>
    /\ steps[Len(steps)].kind = "readdir"
    /\ ~steps[Len(steps)].ok

\* nextModulePath without the path of the directory above
nextModulePath_flat(modulePath, name) == name

\* traverseDirectory: modulePath ? `${modulePath}::${entry.name}` : entry.name
nextModulePath(modulePath, name) ==
    IF modulePath # <<>> THEN modulePath \o <<":", ":">> \o name ELSE name

\* DocManager.traverseDirectory: the calls of fs.readdir and of the file
\* handler it makes, in order, up to a failed fs.readdir
RECURSIVE traverseDirectory(_, _, _)
RECURSIVE traverseEntries(_, _, _, _)
traverseDirectory(dir, dirPath, modulePath) ==
    IF ~dir.ok THEN <<ReaddirStep(FALSE, dirPath)>>
    ELSE <<ReaddirStep(TRUE, dirPath)>> \o traverseEntries(dir.kids, 1, dirPath, modulePath)

traverseEntries(entries, i, dirPath, modulePath) ==
    IF i > Len(entries) THEN <<>>
    ELSE LET entry == entries[i]
             here == IF entry.isDir
                     THEN IF entry.name \in SkipDirs THEN <<>>
                          ELSE traverseDirectory(entry, Append(dirPath, entry.name),
                                                 nextModulePath(modulePath, entry.name))
                     ELSE IF EndsWith(entry.name, Html) /\ entry.name # IndexHtml
                     THEN <<FileStep(entry, Append(dirPath, entry.name), modulePath)>>
                     ELSE <<>>
         IN IF Stopped(here) THEN here
            ELSE here \o traverseEntries(entries, i + 1, dirPath, modulePath)

\* the result of running a handler over the traversal: whether an I/O
\* error ended it, what was collected, the directories listed, the files read
\* the error a failed fs.readdir or fs.readFile rejects with
IoError(syscall, path) == [name |-> "Error", syscall |-> syscall, path |-> path]

\* the result of a traversal that an I/O error ended
RunFailed(cause, items, readdirs, reads) ==
    [failed |-> TRUE, cause |-> cause, items |-> items, readdirs |-> readdirs,
     reads |-> reads]

RunResult(failed, items, readdirs, reads) ==
    [failed |-> failed, items |-> items, readdirs |-> readdirs, reads |-> reads]

\* listSymbols' symbolHandler over the steps from the i-th on
RECURSIVE runSymbolHandler(_, _, _, _, _)
runSymbolHandler(steps, i, crateName, symbols, readdirs) ==
    IF i > Len(steps) THEN RunResult(FALSE, symbols, readdirs, 0)
    ELSE LET st == steps[i] IN
         IF st.kind = "readdir"
         THEN IF st.ok
              THEN runSymbolHandler(steps, i + 1, crateName, symbols, readdirs + 1)
              ELSE RunFailed(IoError("scandir", st.path), symbols, readdirs + 1, 0)
         ELSE LET symbol == parseSymbolFromFile(st.name, st.modulePath, crateName,
                                                st.path)
              IN runSymbolHandler(steps, i + 1, crateName,
                                  IF symbol # NoSymbol THEN Append(symbols, symbol)
                                  ELSE symbols,
                                  readdirs)

\* limitReached never stopping
limitReached_never(limit, n) == FALSE

\* limitReached stopping one result late
limitReached_oneLate(limit, n) == limit # 0 /\ n > limit

\* searchHandler's `options.limit && results.length >= options.limit`;
\* limit 0 is no limit (options.limit is undefined or 0)
limitReached(limit, n) == limit # 0 /\ n >= limit

\* searchDoc's searchHandler over the steps from the i-th on
RECURSIVE runSearchHandler(_, _, _, _, _, _, _, _)
runSearchHandler(steps, i, crateName, query, limit, results, readdirs, reads) ==
    IF i > Len(steps) THEN RunResult(FALSE, results, readdirs, reads)
    ELSE LET st == steps[i] IN
         IF st.kind = "readdir"
         THEN IF st.ok
              THEN runSearchHandler(steps, i + 1, crateName, query, limit, results,
                                    readdirs + 1, reads)
              ELSE RunFailed(IoError("scandir", st.path), results, readdirs + 1, reads)
         ELSE IF limitReached(limit, Len(results))
         THEN runSearchHandler(steps, i + 1, crateName, query, limit, results,
                               readdirs, reads)
         ELSE IF ~st.ok
         THEN RunFailed(IoError("open", st.path), results, readdirs, reads + 1)
         ELSE IF Includes(toLowerCase(st.text), toLowerCase(query))
         THEN LET symbol == parseSymbolFromFile(st.name, st.modulePath, crateName,
                                                st.path)
                  result == [title |-> IF symbol # NoSymbol THEN symbol.path
                                       ELSE basename(st.name),
                             url |-> RustdocUrlCreate(st.path)]
              IN runSearchHandler(steps, i + 1, crateName, query, limit,
                                  Append(results, result), readdirs, reads + 1)
         ELSE runSearchHandler(steps, i + 1, crateName, query, limit, results,
                               readdirs, reads + 1)

----------------------------------------------------------------------------
(* DocManager: each operator is one method, run at clock value t against   *)
(* the store (mem, f) and what the environment answers during the call     *)

\* what the metadata query may give: a failure (non-zero exit, unparsable
\* output) or the target directory
MetaOutcomes == {"fail"} \cup TargetDirs

\* exit codes of the doc build
ExitCodes == {0, 101}

\* the exit code of a cargo that refuses its command line
UsageExit == 1

\* what cargo writes to its standard error before it exits
StderrOf(exit) ==
    IF exit = 0 THEN " Finished"
    ELSE IF exit = UsageExit
    THEN "error: the argument '--no-deps' cannot be used multiple times"
    ELSE "error: could not document"

\* the cargo of a call of buildDoc: once is its exit code for a command
\* line with one --no-deps, twice for one with two, which it takes like
\* the first or refuses
Toolchains ==
    {tc \in [once : ExitCodes, twice : ExitCodes \cup {UsageExit}] :
        tc.twice \in {tc.once, UsageExit}}

\* how often an argument occurs in a command line
Occurrences(args, a) == Cardinality({i \in 1..Len(args) : args[i] = a})

\* running cargo with args: the exit code and the standard error
cargoDoc(tc, args) ==
    LET exit == IF Occurrences(args, "--no-deps") > 1 THEN tc.twice ELSE tc.once
    IN [exitCode |-> exit, stderr |-> StderrOf(exit)]

\* the error execa rejects with when the process exits non-zero
ExecaError(run) ==
    [name |-> "ExecaError", exitCode |-> run.exitCode, stderr |-> run.stderr]

\* an error with its cause (DocError.details)
ErrWith(code, details) == [kind |-> "err", code |-> code, details |-> details]

\* the outcome of a DocCache call whose result record is r
CacheOut(r, value) == IF r.err = "none" THEN value ELSE Err(r.err)

\* the result of a DocManager method: the store it leaves, what the caller
\* gets, what its call of checkDoc gave, and what the call did: metadata
\* queries and doc builds started, fs.access checks of the entry-point file,
\* writes of the store file attempted, directories listed and files read in
\* the documentation tree
MgrResult(mem, f, out, status, meta, build, access, writes, readdirs, reads) ==
    [cache |-> mem, file |-> f, out |-> out, status |-> status, meta |-> meta,
     build |-> build, access |-> access, writes |-> writes,
     readdirs |-> readdirs, reads |-> reads]

\* verifyProjectPath accepting every path
verifyProjectPath_anyPath(hasManifest) == "none"

\* DocManager.verifyProjectPath: fs.access of projectPath/Cargo.toml
verifyProjectPath(hasManifest) == IF hasManifest THEN "none" ELSE "INVALID_PATH"

\* getTargetDir falling back to the directory target of the project
getTargetDir_fallback(metaOut) ==
    [err |-> "none", dir |-> IF metaOut = "fail" THEN "/t" ELSE metaOut]

\* DocManager.getTargetDir
getTargetDir(metaOut) ==
    IF metaOut = "fail" THEN [err |-> "CARGO_ERROR", dir |-> ""]
    ELSE [err |-> "none", dir |-> metaOut]

\* fsAccess never failing
fsAccess_always(docPath, disk) == TRUE

\* fs.access(docPath) in checkDoc: disk is the set of entry-point files
\* that exist
fsAccess(docPath, disk) == docPath \in disk

\* cachedStatus taking every hit for built documentation
cachedStatus_anyHit(cached) == RetBool(TRUE)

\* checkDoc on a hit: return cached.isBuilt
cachedStatus(cached) == RetBool(cached.isBuilt)

\* DocManager.checkDoc.  ws are the outcomes of the writes of the store
\* file, in the order the call makes them.
checkDoc(mem, f, t, p, c, hasManifest, metaOut, disk, ws) ==
    IF verifyProjectPath(hasManifest) # "none"
    THEN MgrResult(mem, f, Err("INVALID_PATH"), Void, 0, 0, 0, 0, 0, 0)
    ELSE
    LET g == get(mem, f, t, p, c, ws[1]) IN
    IF g.err # "none"
    THEN MgrResult(g.cache, g.file, Err(g.err), Void, 0, 0, 0, g.writes, 0, 0)
    ELSE IF IsEntry(g.ret)
    THEN MgrResult(g.cache, g.file, cachedStatus(g.ret), Void, 0, 0, 0, g.writes, 0, 0)
    ELSE
    LET td == getTargetDir(metaOut) IN
    IF td.err # "none"
    THEN \* the outer catch wraps the error of getTargetDir
         MgrResult(g.cache, g.file, Err("CARGO_ERROR"), Void, 1, 0, 0, g.writes, 0, 0)
    ELSE
    LET docPath == DocPathOf(td.dir, c)
        s1 == set(g.cache, g.file, t, MkEntry(p, c, docPath, t, TRUE), ws[g.writes + 1])
        \* the set of the catch block: after a failed fs.access it is the
        \* first set of the call, after a failed set of isBuilt=true the second
        sF == set(g.cache, g.file, t, MkEntry(p, c, docPath, t, FALSE), ws[g.writes + 1])
        s2 == set(s1.cache, s1.file, t, MkEntry(p, c, docPath, t, FALSE), ws[g.writes + 2])
    IN
    IF fsAccess(docPath, disk)
    THEN IF s1.err = "none"
         THEN MgrResult(s1.cache, s1.file, RetBool(TRUE), Void, 1, 0, 1,
                        g.writes + 1, 0, 0)
         ELSE IF s2.err = "none"
         THEN MgrResult(s2.cache, s2.file, RetBool(FALSE), Void, 1, 0, 1,
                        g.writes + 2, 0, 0)
         ELSE \* the outer catch wraps the error of the second cache.set
              MgrResult(s2.cache, s2.file, Err("CARGO_ERROR"), Void, 1, 0, 1,
                        g.writes + 2, 0, 0)
    ELSE IF sF.err = "none"
         THEN MgrResult(sF.cache, sF.file, RetBool(FALSE), Void, 1, 0, 1,
                        g.writes + 1, 0, 0)
         ELSE MgrResult(sF.cache, sF.file, Err("CARGO_ERROR"), Void, 1, 0, 1,
                        g.writes + 1, 0, 0)

\* the arguments buildDoc passes to cargo
buildArgs(c, noDeps) ==
    <<"doc", "--no-deps">> \o (IF noDeps THEN <<"--no-deps">> ELSE <<>>) \o <<"-p", c>>

\* buildFailure without the cause
buildFailure_noCause(error) == Err("BUILD_FAILED")

\* the catch of buildDoc around a rejected execa:
\* new DocError(BUILD_FAILED, 'Failed to build documentation', error)
buildFailure(error) == ErrWith("BUILD_FAILED", error)

\* execa never rejecting: a build that exits non-zero is taken for done
execaRejects_never(run) == FALSE

\* `await execa('cargo', args, {cwd})` rejects when the process exits
\* non-zero (the option reject is left at its default)
execaRejects(run) == run.exitCode # 0

\* DocManager.buildDoc.  run is what the doc build gave: its exit code
\* (execa rejects on a non-zero one) and its standard error.
buildDoc(mem, f, t, p, c, hasManifest, run, metaOut, ws) ==
    IF verifyProjectPath(hasManifest) # "none"
    THEN MgrResult(mem, f, Err("INVALID_PATH"), Void, 0, 0, 0, 0, 0, 0)
    ELSE IF execaRejects(run)
    THEN MgrResult(mem, f, buildFailure(ExecaError(run)), Void, 0, 1, 0, 0, 0, 0)
    ELSE
    LET td == getTargetDir(metaOut) IN
    IF td.err # "none"
    THEN \* the catch of buildDoc wraps the error of getTargetDir
         MgrResult(mem, f, Err("BUILD_FAILED"), Void, 1, 1, 0, 0, 0, 0)
    ELSE
    LET docPath == DocPathOf(td.dir, c)
        s == set(mem, f, t, MkEntry(p, c, docPath, t, TRUE), ws[1])
    IN IF s.err = "none"
       THEN MgrResult(s.cache, s.file, RetPath(docPath), Void, 1, 1, 0, 1, 0, 0)
       ELSE MgrResult(s.cache, s.file, Err("BUILD_FAILED"), Void, 1, 1, 0, 1, 0, 0)

\* DocManager.getDocPath
getDocPath(mem, f, t, p, c, ws) ==
    LET g == get(mem, f, t, p, c, ws[1]) IN
    IF g.err # "none"
    THEN MgrResult(g.cache, g.file, Err(g.err), Void, 0, 0, 0, g.writes, 0, 0)
    ELSE IF ~IsEntry(g.ret)
    THEN MgrResult(g.cache, g.file, RetEntry(NoEntry), Void, 0, 0, 0, g.writes, 0, 0)
    ELSE MgrResult(g.cache, g.file,
                   [kind |-> "doc", val |-> [docPath |-> g.ret.docPath,
                                             isBuilt |-> g.ret.isBuilt]],
                   Void, 0, 0, 0, g.writes, 0, 0)

\* ensureBuilt letting every status pass
ensureBuilt_never(isBuilt) == "none"

\* searchDoc and listSymbols after their call of checkDoc: `if (!isBuilt)
\* throw new DocError(SEARCH_FAILED, ...)`
ensureBuilt(isBuilt) == IF ~isBuilt THEN "SEARCH_FAILED" ELSE "none"

\* traversalFailure without the cause
traversalFailure_noCause(cause) == Err("SEARCH_FAILED")

\* the catch of listSymbols and of searchDoc around the traversal:
\* new DocError(SEARCH_FAILED, 'Failed to ...', error)
traversalFailure(cause) == ErrWith("SEARCH_FAILED", cause)

\* lookupMiss thrown inside the try block, whose catch wraps it
lookupMiss_wrapped == Err("SEARCH_FAILED")

\* listSymbols and searchDoc when their cache.get gives null: `if (!cached)
\* throw new DocError(CACHE_ERROR, ...)`, before the try block
lookupMiss == Err("CACHE_ERROR")

\* the result of listSymbols or searchDoc after its checkDoc gave chk: the
\* store it leaves, what the caller gets, the writes it made since, the
\* directories it listed and the files it read
After(chk, mem, f, out, writes, readdirs, reads) ==
    MgrResult(mem, f, out, chk.out, chk.meta, chk.build, chk.access,
              chk.writes + writes, readdirs, reads)

\* listSymbols from its try block on: h is what the traversal with
\* symbolHandler gave
listSymbolsTraversed(chk, g, h) ==
    IF h.failed
    THEN After(chk, g.cache, g.file, traversalFailure(h.cause), g.writes, h.readdirs,
               h.reads)
    ELSE After(chk, g.cache, g.file,
               RetList(sortBy(h.items, [i \in 1..Len(h.items) |-> h.items[i].path])),
               g.writes, h.readdirs, h.reads)

\* listSymbols from the result g of its cache.get on; tree is the
\* documentation directory as it is during the call
listSymbolsLookedUp(chk, g, c, tree) ==
    IF g.err # "none"
    THEN After(chk, g.cache, g.file, Err(g.err), g.writes, 0, 0)
    ELSE IF ~IsEntry(g.ret)
    THEN After(chk, g.cache, g.file, lookupMiss, g.writes, 0, 0)
    ELSE listSymbolsTraversed(chk, g,
             runSymbolHandler(traverseDirectory(tree, <<dirname(g.ret.docPath)>>, <<>>),
                              1, CrateText(c), <<>>, 0))

\* listSymbols from the result chk of its checkDoc on; its cache.get is
\* made at time t2
listSymbolsChecked(chk, t2, p, c, tree, ws) ==
    IF chk.out.kind = "err"
    THEN After(chk, chk.cache, chk.file, chk.out, 0, 0, 0)
    ELSE IF ensureBuilt(chk.out.val) # "none"
    THEN After(chk, chk.cache, chk.file, Err("SEARCH_FAILED"), 0, 0, 0)
    ELSE listSymbolsLookedUp(chk, get(chk.cache, chk.file, t2, p, c, ws[chk.writes + 1]),
                             c, tree)

\* DocManager.listSymbols, called at time t.  ws are the outcomes of the
\* writes of the store file, in the order the call makes them.
listSymbols(mem, f, t, t2, p, c, env, tree, ws) ==
    listSymbolsChecked(checkDoc(mem, f, t, p, c, env.manifest, env.metaOut, env.disk, ws),
                       t2, p, c, tree, ws)

\* searchDocTraversed dropping the entry of the store when the traversal
\* fails
searchDocTraversed_invalidating(chk, g, h) ==
    IF h.failed
    THEN After(chk, Delete(g.cache, getCacheKey(g.ret.projectPath, g.ret.crateName)),
               g.file, traversalFailure(h.cause), g.writes, h.readdirs, h.reads)
    ELSE After(chk, g.cache, g.file,
               RetList(sortBy(h.items, [i \in 1..Len(h.items) |-> h.items[i].title])),
               g.writes, h.readdirs, h.reads)

\* searchDoc from its try block on: h is what the traversal with
\* searchHandler gave
searchDocTraversed(chk, g, h) ==
    IF h.failed
    THEN After(chk, g.cache, g.file, traversalFailure(h.cause), g.writes, h.readdirs,
               h.reads)
    ELSE After(chk, g.cache, g.file,
               RetList(sortBy(h.items, [i \in 1..Len(h.items) |-> h.items[i].title])),
               g.writes, h.readdirs, h.reads)

\* searchDoc from the result g of its cache.get on; limit 0 stands for
\* options without a limit
searchDocLookedUp(chk, g, c, query, limit, tree) ==
    IF g.err # "none"
    THEN After(chk, g.cache, g.file, Err(g.err), g.writes, 0, 0)
    ELSE IF ~IsEntry(g.ret)
    THEN After(chk, g.cache, g.file, lookupMiss, g.writes, 0, 0)
    ELSE searchDocTraversed(chk, g,
             runSearchHandler(traverseDirectory(tree, <<dirname(g.ret.docPath)>>, <<>>),
                              1, CrateText(c), query, limit, <<>>, 0, 0))

\* searchDoc from the result chk of its checkDoc on
searchDocChecked(chk, t2, p, c, query, limit, tree, ws) ==
    IF chk.out.kind = "err"
    THEN After(chk, chk.cache, chk.file, chk.out, 0, 0, 0)
    ELSE IF ensureBuilt(chk.out.val) # "none"
    THEN After(chk, chk.cache, chk.file, Err("SEARCH_FAILED"), 0, 0, 0)
    ELSE searchDocLookedUp(chk, get(chk.cache, chk.file, t2, p, c, ws[chk.writes + 1]),
                           c, query, limit, tree)

\* DocManager.searchDoc, called at time t
searchDoc(mem, f, t, t2, p, c, query, limit, env, tree, ws) ==
    searchDocChecked(checkDoc(mem, f, t, p, c, env.manifest, env.metaOut, env.disk, ws),
                     t2, p, c, query, limit, tree, ws)

----------------------------------------------------------------------------
(* The record of the last completed operation *)

\* the entry the store holds under the key of (p, c), expired or not
PreEntry(mem, p, c) ==
    IF getCacheKey(p, c) \in DOMAIN mem THEN mem[getCacheKey(p, c)] ELSE NoEntry

\* op: the operation; p, c: its project path and crate name; arg: its other
\* input; env: what the disk and the toolchain were like during the call;
\* ws: the outcomes of its writes of the store file; t: the clock when it
\* started; pre: what the store held under its key then; r: its result
OpRecord(op, p, c, arg, env, ws, t, pre, r) ==
    [op |-> op, p |-> p, c |-> c, arg |-> arg, env |-> env, ws |-> ws, t |-> t,
     pre |-> pre, out |-> r.out, status |-> r.status, meta |-> r.meta,
     build |-> r.build, access |-> r.access, writes |-> r.writes,
     readdirs |-> r.readdirs, reads |-> r.reads]

NoOp ==
    OpRecord("none", "", "", NoArg, NoArg, <<>>, 0, NoEntry,
             MgrResult(EmptyStore, NoFile, Void, Void, 0, 0, 0, 0, 0, 0))

\* the result of a DocCache call, in the form of a DocManager result
CacheResult(r, value) ==
    MgrResult(r.cache, r.file, CacheOut(r, value), Void, 0, 0, 0, r.writes, 0, 0)

----------------------------------------------------------------------------
(* The initial state: the objects are constructed, nothing is loaded *)

\* a store a previous run of the server left in the file
OldStore ==
    (getCacheKey("a", "c") :> MkEntry("a", "c", DocPathOf("/t", "c"), 0, TRUE))
    @@ (getCacheKey("a:b", "c") :> MkEntry("a:b", "c", DocPathOf("/t", "c"), 1, FALSE))

InitFiles == {NoFile, CorruptFile, UnreadableFile, JsonFile(OldStore)}

NoHist == [pairs |-> {}, onlySets |-> FALSE]

\* the server processes that share the store file
Procs == {1, 2}

\* last: the process whose write ended last; failed: a write has failed;
\* overlapped: a process has had two requests in flight at once
NoWrites == [last |-> 0, failed |-> FALSE, overlapped |-> FALSE]

Init ==
    /\ now = 0
    /\ cache = EmptyStore
    /\ file \in InitFiles
    /\ started = "new"
    /\ hist = [pairs |-> {}, onlySets |-> TRUE]
    /\ lastOp = NoOp
    /\ procs = [i \in Procs |-> [started |-> "new", cache |-> EmptyStore]]
    /\ tasks = {}
    /\ wrote = NoWrites

\* time passes
Tick(d) ==
    /\ now + d \in Clock
    /\ now' = now + d
    /\ lastOp' = NoOp
    /\ UNCHANGED <<cache, file, started, hist>>
    /\ UNCHANGED asyncVars

----------------------------------------------------------------------------
(* The DocCache class on its own: any sequence of calls of its public      *)
(* methods on a constructed object                                         *)

\* of the write outcomes ws only the first n are used
Writes(ws, n) == \A i \in 1..Len(ws) : i > n => ws[i] = "ok"

CacheInitialize(w) ==
    LET r == initialize(cache, file, now, w) IN
    /\ Writes(<<w>>, r.writes)
    /\ cache' = r.cache
    /\ file' = r.file
    /\ hist' = NoHist
    /\ lastOp' = OpRecord("initialize", "", "", NoArg, NoArg, <<w>>, now, NoEntry,
                          CacheResult(r, Void))
    /\ UNCHANGED <<now, started>>
    /\ UNCHANGED asyncVars

CacheGet(p, c, w) ==
    LET r == get(cache, file, now, p, c, w) IN
    /\ Writes(<<w>>, r.writes)
    /\ cache' = r.cache
    /\ file' = r.file
    /\ hist' = NoHist
    /\ lastOp' = OpRecord("get", p, c, NoArg, NoArg, <<w>>, now, PreEntry(cache, p, c),
                          CacheResult(r, RetEntry(r.ret)))
    /\ UNCHANGED <<now, started>>
    /\ UNCHANGED asyncVars

CacheSet(entry, w) ==
    LET r == set(cache, file, now, entry, w) IN
    /\ cache' = r.cache
    /\ file' = r.file
    /\ hist' = IF hist.onlySets
               THEN [hist EXCEPT !.pairs = @ \cup {<<entry.projectPath, entry.crateName>>}]
               ELSE hist
    /\ lastOp' = OpRecord("set", entry.projectPath, entry.crateName, entry, NoArg, <<w>>,
                          now, NoEntry, CacheResult(r, Void))
    /\ UNCHANGED <<now, started>>
    /\ UNCHANGED asyncVars

CacheRemove(p, c, w) ==
    LET r == remove(cache, file, p, c, w) IN
    /\ cache' = r.cache
    /\ file' = r.file
    /\ hist' = NoHist
    /\ lastOp' = OpRecord("remove", p, c, NoArg, NoArg, <<w>>, now, NoEntry,
                          CacheResult(r, Void))
    /\ UNCHANGED <<now, started>>
    /\ UNCHANGED asyncVars

\* the lastBuildTime values a caller of set may supply
SuppliedTimes == {7}

SetInputs ==
    {MkEntry(pc[1], pc[2], DocPathOf(d, pc[2]), t, b) :
        pc \in CachePairs, d \in TargetDirs, t \in SuppliedTimes, b \in BOOLEAN}

NextCache ==
    \/ \E d \in Steps : Tick(d)
    \/ \E w \in WriteOutcomes : CacheInitialize(w)
    \/ \E pc \in CachePairs, w \in WriteOutcomes : CacheGet(pc[1], pc[2], w)
    \/ \E e \in SetInputs, w \in WriteOutcomes : CacheSet(e, w)
    \/ \E pc \in CachePairs, w \in WriteOutcomes : CacheRemove(pc[1], pc[2], w)

SpecCache == Init /\ [][NextCache]_vars

----------------------------------------------------------------------------
(* The server: main() initializes the manager, then serves requests, each  *)
(* one run to completion                                                   *)

\* main(): docManager.initialize(); a failure ends the process
Initialize(w) ==
    LET r == initialize(cache, file, now, w) IN
    /\ started = "new"
    /\ Writes(<<w>>, r.writes)
    /\ cache' = r.cache
    /\ file' = r.file
    /\ started' = IF r.err = "none" THEN "running" ELSE "exited"
    /\ hist' = NoHist
    /\ lastOp' = OpRecord("initialize", "", "", NoArg, NoArg, <<w>>, now, NoEntry,
                          CacheResult(r, Void))
    /\ UNCHANGED now
    /\ UNCHANGED asyncVars

\* the entry-point files a call may find on disk
DocPaths == {DocPathOf(d, c) : d \in TargetDirs, c \in Crates}

\* what a call finds: whether the project has a Cargo.toml directly under
\* it, which entry-point files exist, what the metadata query gives
Envs ==
    {env \in [manifest : BOOLEAN, disk : SUBSET DocPaths,
              metaOut : MetaOutcomes \cup {"unasked"}] :
        ~env.manifest => (env.disk = {} /\ env.metaOut = "unasked")}

\* the metadata query answers when it is made and only then; a call that
\* stops at the manifest check has seen nothing else of the disk
Asked(env, r) ==
    env # NoArg =>
        /\ (r.meta = 0) = (env.metaOut = "unasked")
        /\ ~env.manifest => env.disk = {}

\* the outcomes of the writes of the store file one call may make: a call
\* ends at its first failed write, except that checkDoc follows a failed
\* cache.set by a second one; a third write is that second cache.set
WritePlans ==
    {ws \in [1..3 -> WriteOutcomes] : ws[3] # "ok" => (ws[1] = "ok" /\ ws[2] # "ok")}

\* how much later than its checkDoc a call may make its second lookup
Delays == {0, 1}

\* documentation directories: one that cannot be listed, one with symbols
\* at its root and in a module, an entry-point file, generated files that
\* are no symbol, and files under src; one of whose files one cannot be read
NoTree == Dir(<<>>, <<>>, FALSE)

DocTree(readable) ==
    Dir(<<>>,
        <<Dir(<<"m">>, <<File(<<"f", "n", ".", "g">> \o Html, <<"f", "o", "o">>, TRUE)>>,
              TRUE),
          File(<<"s", "t", "r", "u", "c", "t", ".", "F", "-", "B">> \o Html,
               <<"b", "a", "r">>, TRUE),
          File(IndexHtml, <<"f", "o", "o">>, TRUE),
          Dir(<<"s", "r", "c">>,
              <<File(<<"f", "n", ".", "x">> \o Html, <<"f", "o", "o">>, TRUE)>>, TRUE),
          File(<<"a", "l", "l">> \o Html, <<"F", "O", "O">>, readable)>>,
        TRUE)

Trees == {NoTree, DocTree(TRUE), DocTree(FALSE)}

Queries == {<<"f", "O">>}

Limits == {0, 1}

\* a call that does not come to its second lookup spends no time before
\* it, one that does not come to its traversal meets no tree
Reached(r, d, tree) ==
    /\ r.status # RetBool(TRUE) => d = 0
    /\ r.readdirs = 0 => tree = NoTree

\* the running server serves a request: the call of the DocManager method runs to
\* completion, taking the time d and giving the result r
Serve(op, p, c, arg, env, ws, d, tree, r) ==
    /\ now + d \in Clock
    /\ Writes(ws, r.writes)
    /\ Asked(env, r)
    /\ Reached(r, d, tree)
    /\ cache' = r.cache
    /\ file' = r.file
    /\ now' = now + d
    /\ lastOp' = OpRecord(op, p, c, arg, env, ws, now, PreEntry(cache, p, c), r)
    /\ UNCHANGED <<started, hist>>
    /\ UNCHANGED asyncVars

CheckDoc(p, c, env, ws) ==
    /\ started = "running"
    /\ Serve("checkDoc", p, c, NoArg, env, ws, 0, NoTree,
             checkDoc(cache, file, now, p, c, env.manifest, env.metaOut, env.disk, ws))

\* what a buildDoc is called with and what its cargo is like
BuildArg(c, noDeps, tc) ==
    [noDeps |-> noDeps, exit |-> cargoDoc(tc, buildArgs(c, noDeps)).exitCode,
     stderr |-> cargoDoc(tc, buildArgs(c, noDeps)).stderr,
     args |-> buildArgs(c, noDeps), tc |-> tc]

\* a build that is not started meets no cargo
BuildDoc(p, c, noDeps, tc, env, ws) ==
    /\ started = "running"
    /\ env.disk = {}
    /\ Serve("buildDoc", p, c, BuildArg(c, noDeps, tc), env, ws, 0, NoTree,
             buildDoc(cache, file, now, p, c, env.manifest,
                      cargoDoc(tc, buildArgs(c, noDeps)), env.metaOut, ws))
    /\ lastOp'.build = 0 => tc = [once |-> 0, twice |-> 0]

GetDocPath(p, c, ws) ==
    /\ started = "running"
    /\ Serve("getDocPath", p, c, NoArg, NoArg, ws, 0, NoTree,
             getDocPath(cache, file, now, p, c, ws))

\* chk is the checkDoc a listSymbols or searchDoc makes: after it the call
\* writes the store file at most once
Checked(env, ws, chk) ==
    /\ Asked(env, chk)
    /\ Writes(ws, chk.writes + 1)

ListSymbols(p, c, env, tree, d, ws) ==
    /\ started = "running"
    /\ now + d \in Clock
    /\ Checked(env, ws,
               checkDoc(cache, file, now, p, c, env.manifest, env.metaOut, env.disk, ws))
    /\ Serve("listSymbols", p, c, [tree |-> tree, d |-> d], env, ws, d, tree,
             listSymbols(cache, file, now, now + d, p, c, env, tree, ws))

SearchDoc(p, c, query, limit, env, tree, d, ws) ==
    /\ started = "running"
    /\ now + d \in Clock
    /\ Checked(env, ws,
               checkDoc(cache, file, now, p, c, env.manifest, env.metaOut, env.disk, ws))
    /\ Serve("searchDoc", p, c,
             [tree |-> tree, d |-> d, query |-> query, limit |-> limit], env, ws, d, tree,
             searchDoc(cache, file, now, now + d, p, c, query, limit, env, tree, ws))

Next ==
    \/ \E d \in Steps : Tick(d)
    \/ \E w \in WriteOutcomes : Initialize(w)
    \/ \E p \in Projects, c \in Crates, env \in Envs, ws \in WritePlans :
          CheckDoc(p, c, env, ws)
    \/ \E p \in Projects, c \in Crates, nd \in BOOLEAN, tc \in Toolchains,
          env \in Envs, ws \in WritePlans :
          BuildDoc(p, c, nd, tc, env, ws)
    \/ \E p \in Projects, c \in Crates, ws \in WritePlans :
          GetDocPath(p, c, ws)
    \/ \E p \in Projects, c \in Crates, env \in Envs, tree \in Trees, d \in Delays,
          ws \in WritePlans :
          ListSymbols(p, c, env, tree, d, ws)
    \/ \E p \in Projects, c \in Crates, q \in Queries, l \in Limits, env \in Envs,
          tree \in Trees, d \in Delays, ws \in WritePlans :
          SearchDoc(p, c, q, l, env, tree, d, ws)

Spec == Init /\ [][Next]_vars

----------------------------------------------------------------------------
(* The indexer on its own: the first listSymbols or searchDoc the started  *)
(* server runs, over a family of documentation trees, every write of the   *)
(* store file succeeding                                                   *)

\* how many entries the root of a generated tree has at most
MaxEntries == 2

OkPlan == [i \in 1..3 |-> "ok"]

\* the files and directories a generated tree is put together from: two
\* items with the same name in different namespaces, a name with a hyphen,
\* generated pages that are no symbol, the entry point, a file that is not
\* HTML, a file that cannot be read, a module with the two skipped
\* directories below it, the skipped directories themselves, and a
\* directory that cannot be listed
EntryPool ==
    {File(<<"s", "t", "r", "u", "c", "t", ".", "X">> \o Html, <<"f", "o", "o">>, TRUE),
     File(<<"m", "a", "c", "r", "o", ".", "X">> \o Html, <<"F", "O", "O">>, TRUE),
     File(<<"f", "n", ".", "a", "-", "b">> \o Html, <<"b", "a", "r">>, TRUE),
     File(<<"a", "l", "l">> \o Html, <<"x", "f", "O">>, TRUE),
     File(IndexHtml, <<"f", "o", "o">>, TRUE),
     File(<<"f", "n", ".", "t", ".", "t", "x", "t">>, <<"f", "o", "o">>, TRUE),
     File(<<"f", "n", ".", "z">> \o Html, <<"f", "o", "o">>, FALSE),
     Dir(<<"m">>,
         <<File(<<"f", "n", ".", "g">> \o Html, <<"o", "f", "o">>, TRUE),
           Dir(<<"s", "r", "c">>,
               <<File(<<"f", "n", ".", "y">> \o Html, <<"f", "o", "o">>, TRUE)>>, TRUE),
           Dir(<<"n">>,
               <<Dir(<<"i", "m", "p", "l", "e", "m", "e", "n", "t", "o", "r", "s">>,
                     <<File(<<"t", "r", "a", "i", "t", ".", "T">> \o Html,
                            <<"f", "o", "o">>, TRUE)>>, TRUE),
                 File(<<"m", "o", "d", ".", "k">> \o Html, <<"o", "f">>, TRUE),
                 File(<<"t", "y", "p", "e", ".", "S">> \o Html, <<"F", "o">>, TRUE)>>,
               TRUE)>>,
         TRUE),
     Dir(<<"s", "r", "c">>,
         <<File(<<"f", "n", ".", "x">> \o Html, <<"f", "o", "o">>, TRUE),
           Dir(<<"d">>,
               <<File(<<"f", "n", ".", "w">> \o Html, <<"f", "o", "o">>, TRUE)>>, TRUE)>>,
         TRUE),
     Dir(<<"i", "m", "p", "l", "e", "m", "e", "n", "t", "o", "r", "s">>,
         <<File(<<"s", "t", "r", "u", "c", "t", ".", "I">> \o Html, <<"f", "o", "o">>,
                TRUE)>>, TRUE),
     Dir(<<"u">>, <<>>, FALSE)}

\* the orders fs.readdir may report a set of entries in
Orders(entries) ==
    {s \in [1..Cardinality(entries) -> entries] :
        \A i, j \in 1..Cardinality(entries) : i # j => s[i] # s[j]}

\* a directory with ten pages that hold the query
TenTree ==
    Dir(<<>>,
        [i \in 1..10 |-> File(<<"f", "n", ".", Lower[i]>> \o Html, <<"f", "o", "o">>, TRUE)],
        TRUE)

\* file names of the form <kind>.<name>.html: every kind, and names with
\* no, one and two hyphens, of a hyphen alone, and with a dot
ParseNames ==
    {<<"x">>, <<"F", "o", "o", "-", "B", "a", "r">>, <<"a", "-", "b", "-", "c">>,
     <<"-">>, <<"a", ".", "b">>}

\* file names that end in .html and are not of that form: no name, an
\* empty name, a kind that is none of the eight, a capital, text before or
\* after the kind
OtherNames ==
    {<<"s", "t", "r", "u", "c", "t">> \o Html,
     <<"s", "t", "r", "u", "c", "t", ".">> \o Html,
     <<"u", "n", "i", "o", "n", ".", "X">> \o Html,
     <<"S", "t", "r", "u", "c", "t", ".", "X">> \o Html,
     <<"x", "f", "n", ".", "X">> \o Html,
     <<"f", "n", "s", ".", "X">> \o Html,
     <<"f", "n", "-", "X">> \o Html}

\* a directory with one file, directly under it
ParseTrees ==
    {Dir(<<>>, <<File(name, <<"f", "o", "o">>, TRUE)>>, TRUE) :
        name \in {k \o <<".">> \o n \o Html : k \in SymbolTypes, n \in ParseNames}
                 \cup OtherNames}

\* directories m, with n below it, and p, each with a page, and a page
\* after them
NestedTree ==
    Dir(<<>>,
        <<Dir(<<"m">>,
              <<Dir(<<"n">>, <<File(<<"s", "t", "r", "u", "c", "t", ".", "A">> \o Html,
                                    <<"f", "o", "o">>, TRUE)>>, TRUE),
                File(<<"f", "n", ".", "b">> \o Html, <<"f", "o", "o">>, TRUE)>>,
              TRUE),
          Dir(<<"p">>, <<File(<<"e", "n", "u", "m", ".", "C">> \o Html,
                              <<"f", "o", "o">>, TRUE)>>, TRUE),
          File(<<"t", "r", "a", "i", "t", ".", "D">> \o Html, <<"f", "o", "o">>, TRUE)>>,
        TRUE)

IndexTrees ==
    {NoTree, TenTree, NestedTree}
    \cup ParseTrees
    \cup {Dir(<<>>, kids, TRUE) :
            kids \in UNION {Orders(es) : es \in {x \in SUBSET EntryPool :
                                                    Cardinality(x) <= MaxEntries}}}

IndexLimits == 0..3

\* what a call finds, as in Envs, and for the crate my-crate its
\* entry-point file
IndexEnvs ==
    Envs \cup {[manifest |-> TRUE, disk |-> {DocPathOf("/t", "my-crate")}, metaOut |-> "/t"]}

\* the crates and trees of the requests: the crate my-crate with the trees
\* of one file
IndexRuns ==
    ({"c"} \X IndexTrees) \cup ({"my-crate"} \X (ParseTrees \cup {NoTree}))

\* the first request the started server serves is a list_symbols
ListTree(c, env, tree) ==
    /\ lastOp.op = "initialize"
    /\ ListSymbols("a", c, env, tree, 0, OkPlan)

\* the first request the started server serves is a search_doc
SearchTree(c, env, tree, limit) ==
    /\ lastOp.op = "initialize"
    /\ SearchDoc("a", c, <<"f", "O">>, limit, env, tree, 0, OkPlan)

\* a directory with eleven pages that hold the query
ElevenTree ==
    Dir(<<>>,
        [i \in 1..11 |-> File(<<"f", "n", ".", Lower[i]>> \o Html, <<"f", "o", "o">>, TRUE)],
        TRUE)

\* the arguments of a search_doc tool call, with a limit and without one
ToolArgs ==
    {[project_path |-> "a", crate_name |-> "c", query |-> <<"f", "O">>]}
    \cup {[project_path |-> "a", crate_name |-> "c", query |-> <<"f", "O">>,
           limit |-> l] : l \in 1..2}

\* the options the search_doc case of doc-manager.ts hands to searchDoc:
\* { limit: 50 }, whatever the arguments hold
searchOptions(args) == [limit |-> 50]

\* the options the search_doc case of index.ts hands to searchDoc:
\* { limit }, the limit of the arguments, undefined (here 0, as falsy) when
\* they hold none
indexSearchOptions(args) ==
    [limit |-> IF "limit" \in DOMAIN args THEN args.limit ELSE 0]

\* a search_doc tool call handled with the options opts
SearchTool(handler, args, opts, env, tree) ==
    /\ lastOp.op = "initialize"
    /\ started = "running"
    /\ Checked(env, OkPlan,
               checkDoc(cache, file, now, args.project_path, args.crate_name,
                        env.manifest, env.metaOut, env.disk, OkPlan))
    /\ Serve("search_doc", args.project_path, args.crate_name,
             [tree |-> tree, d |-> 0, query |-> args.query, limit |-> opts.limit,
              args |-> args, handler |-> handler],
             env, OkPlan, 0, tree,
             searchDoc(cache, file, now, now, args.project_path, args.crate_name,
                       args.query, opts.limit, env, tree, OkPlan))

\* the first request the started server of doc-manager.ts serves is a
\* search_doc
SearchDocTool(args, env, tree) ==
    SearchTool("doc-manager.ts", args, searchOptions(args), env, tree)

\* the first request the started server of index.ts serves is a search_doc
IndexSearchDocTool(args, env, tree) ==
    SearchTool("index.ts", args, indexSearchOptions(args), env, tree)

NextIndex ==
    \/ \E w \in WriteOutcomes : Initialize(w)
    \/ \E args \in ToolArgs, env \in IndexEnvs, tree \in {TenTree, ElevenTree} :
          SearchDocTool(args, env, tree)
    \/ \E args \in ToolArgs, env \in IndexEnvs, tree \in {TenTree, ElevenTree} :
          IndexSearchDocTool(args, env, tree)
    \/ \E run \in IndexRuns, env \in IndexEnvs : ListTree(run[1], env, run[2])
    \/ \E run \in IndexRuns, env \in IndexEnvs, l \in IndexLimits :
          SearchTree(run[1], env, run[2], l)

SpecIndex == Init /\ [][NextIndex]_vars

----------------------------------------------------------------------------
(* Server processes sharing the store file.  Each process runs main() and  *)
(* then its CallTool handler on the check_doc requests that arrive; a      *)
(* handler runs from one await to the next, and the event loop of the      *)
(* process runs whichever suspended handler's await has settled.  The      *)
(* clock stands at 0, so nothing a process loads or holds has expired.     *)

\* at most MaxTasks requests of one process are in flight
MaxTasks == 2

\* the packages the requests are about: two with different keys
AsyncPairs == {<<"a", "c">>, <<"a:b", "c">>}

\* the requests of process i in flight
InFlight(i) == {r \in tasks : r.proc = i}

\* a check_doc request of process i for (p, c), suspended at the await at;
\* dir: the target directory it was given; built: the isBuilt of its
\* cache.set; snap: the text JSON.stringify made for its writeFile
Request(i, p, c, at, dir, built, snap) ==
    [proc |-> i, p |-> p, c |-> c, at |-> at, dir |-> dir, built |-> built,
     snap |-> snap]

\* main() of process i: docManager.initialize(); a failure ends the process
ProcStart(i) ==
    LET r == initialize(procs[i].cache, file, now, "ok") IN
    /\ procs[i].started = "new"
    /\ procs' = [procs EXCEPT ![i] = [started |-> IF r.err = "none" THEN "running"
                                                  ELSE "exited",
                                      cache |-> r.cache]]
    /\ file' = r.file
    /\ UNCHANGED <<now, cache, started, hist, lastOp, tasks, wrote>>

\* a check_doc request for (p, c) reaches process i: its handler is called
\* and runs checkDoc up to the fs.access of verifyProjectPath
Arrive(i, p, c) ==
    /\ procs[i].started = "running"
    /\ Cardinality(InFlight(i)) < MaxTasks
    /\ \A r \in InFlight(i) : <<r.p, r.c>> # <<p, c>>
    /\ tasks' = tasks \cup {Request(i, p, c, "verify", "", FALSE, EmptyStore)}
    /\ wrote' = [wrote EXCEPT !.overlapped = @ \/ InFlight(i) # {}]
    /\ UNCHANGED <<now, cache, file, started, hist, lastOp, procs>>

\* the fs.access of verifyProjectPath settles: without a manifest the
\* request fails; with one, cache.get looks the key up and a hit is
\* returned, a miss starts the metadata query
Verified(r, hasManifest) ==
    LET g == get(procs[r.proc].cache, file, now, r.p, r.c, "ok") IN
    /\ r.at = "verify"
    /\ tasks' = IF verifyProjectPath(hasManifest) # "none" \/ IsEntry(g.ret)
                THEN tasks \ {r}
                ELSE (tasks \ {r}) \cup {[r EXCEPT !.at = "metadata"]}
    /\ UNCHANGED <<now, cache, file, started, hist, lastOp, procs, wrote>>

\* the metadata query ends: a failure fails the request, a target directory
\* starts the fs.access of the entry-point file
GotTargetDir(r, metaOut) ==
    LET td == getTargetDir(metaOut) IN
    /\ r.at = "metadata"
    /\ tasks' = IF td.err # "none"
                THEN tasks \ {r}
                ELSE (tasks \ {r}) \cup {[r EXCEPT !.at = "access", !.dir = td.dir]}
    /\ UNCHANGED <<now, cache, file, started, hist, lastOp, procs, wrote>>

\* the fs.access of the entry-point file settles and cache.set runs up to
\* the await of save: the entry is in the in-memory store, the text of the
\* store is made, the writeFile is started
Accessed(r, exists) ==
    LET s == set(procs[r.proc].cache, file, now,
                 MkEntry(r.p, r.c, DocPathOf(r.dir, r.c), now, exists), "ok")
    IN
    /\ r.at = "access"
    /\ procs' = [procs EXCEPT ![r.proc].cache = s.cache]
    /\ tasks' = (tasks \ {r}) \cup
                {[r EXCEPT !.at = "saving", !.built = exists, !.snap = s.cache]}
    /\ UNCHANGED <<now, cache, file, started, hist, lastOp, wrote>>

\* the writeFile of a request ends with outcome w.  A failed write of
\* isBuilt=true is caught by checkDoc, whose catch block runs cache.set with
\* isBuilt=false up to the await of its save; any other ends the request.
Saved(r, w) ==
    LET s == set(procs[r.proc].cache, file, now,
                 MkEntry(r.p, r.c, DocPathOf(r.dir, r.c), now, FALSE), "ok")
    IN
    /\ r.at = "saving"
    /\ file' = save(r.snap, file, w).file
    /\ wrote' = [wrote EXCEPT !.last = r.proc, !.failed = @ \/ w # "ok"]
    /\ IF w # "ok" /\ r.built
       THEN /\ procs' = [procs EXCEPT ![r.proc].cache = s.cache]
            /\ tasks' = (tasks \ {r}) \cup {[r EXCEPT !.built = FALSE, !.snap = s.cache]}
       ELSE /\ procs' = procs
            /\ tasks' = tasks \ {r}
    /\ UNCHANGED <<now, cache, started, hist, lastOp>>

NextAsync ==
    \/ \E i \in Procs : ProcStart(i)
    \/ \E i \in Procs, pc \in AsyncPairs : Arrive(i, pc[1], pc[2])
    \/ \E r \in tasks, m \in BOOLEAN : Verified(r, m)
    \/ \E r \in tasks, metaOut \in MetaOutcomes : GotTargetDir(r, metaOut)
    \/ \E r \in tasks, exists \in BOOLEAN : Accessed(r, exists)
    \/ \E r \in tasks, w \in WriteOutcomes : Saved(r, w)

SpecAsync == Init /\ [][NextAsync]_vars

----------------------------------------------------------------------------
(* RustdocUrl on its own: one call of parse, on what create gives or on    *)
(* any text                                                                *)

\* a text is made of at most MaxParts pieces
MaxParts == 3

\* pieces of paths and of URIs: the scheme prefix, the prefix short of its
\* last character, the prefix in capitals, and parts of file paths
UrlPieces ==
    {Scheme, SubSeq(Scheme, 1, 9), SubSeq(Scheme, 2, 10),
     <<"R", "U", "S", "T", "D", "O", "C", ":", "/", "/">>,
     <<"/", "t">>, <<"/">>, <<"a", ".", "h", "t", "m", "l">>}

RECURSIVE Joined(_)
\* the pieces of a sequence, one after the other
Joined(pieces) ==
    IF pieces = <<>> THEN <<>> ELSE Head(pieces) \o Joined(Tail(pieces))

UrlTexts ==
    {Joined(ps) : ps \in UNION {[1..n -> UrlPieces] : n \in 0..MaxParts}}

UrlResult(out) == MgrResult(cache, file, out, Void, 0, 0, 0, 0, 0, 0)

\* RustdocUrl.parse(RustdocUrl.create(docPath))
ParseCreated(docPath) ==
    /\ lastOp = NoOp
    /\ lastOp' = OpRecord("parse", "", "", [docPath |-> docPath, url |-> create(docPath)],
                          NoArg, <<>>, now, NoEntry, UrlResult(parse(create(docPath))))
    /\ UNCHANGED <<now, cache, file, started, hist>>
    /\ UNCHANGED asyncVars

\* RustdocUrl.parse(url) of the ReadResource handler
Parse(url) ==
    /\ lastOp = NoOp
    /\ lastOp' = OpRecord("parse", "", "", [url |-> url], NoArg, <<>>, now, NoEntry,
                          UrlResult(parse(url)))
    /\ UNCHANGED <<now, cache, file, started, hist>>
    /\ UNCHANGED asyncVars

NextUrl ==
    \/ \E docPath \in UrlTexts : ParseCreated(docPath)
    \/ \E url \in UrlTexts : Parse(url)

SpecUrl == Init /\ [][NextUrl]_vars

----------------------------------------------------------------------------
(* Properties of DocCache, checked under SpecCache *)

\* C1.  Cache round-trip: after set(e), a get(e.projectPath, e.crateName)
\* made at any time up to CACHE_TTL later returns an entry with e's
\* crateName, projectPath, docPath and isBuilt, and with the time of the set
\* call as lastBuildTime, whatever lastBuildTime e came with.
CacheRoundTrip ==
    lastOp.op = "set" =>
        \A t2 \in Clock :
            (t2 >= now /\ t2 - now <= CACHE_TTL) =>
                LET e == lastOp.arg
                    g == get(cache, file, t2, e.projectPath, e.crateName, "ok")
                IN /\ g.err = "none"
                   /\ IsEntry(g.ret)
                   /\ g.ret.crateName = e.crateName
                   /\ g.ret.projectPath = e.projectPath
                   /\ g.ret.docPath = e.docPath
                   /\ g.ret.isBuilt = e.isBuilt
                   /\ g.ret.lastBuildTime = lastOp.t

\* a set, on the second day, of an entry that came with another lastBuildTime
CacheRoundTripWitness ==
    /\ lastOp.op = "set"
    /\ lastOp.t >= CACHE_TTL
    /\ lastOp.arg.lastBuildTime # lastOp.t
    /\ lastOp.out = Void
    /\ now + CACHE_TTL \notin Clock

\* C2.  Expiry: a get that finds an entry under its key returns it if and
\* only if now - lastBuildTime <= CACHE_TTL; if the entry is older, the key
\* is gone from the in-memory store, the call returns absent when its write
\* of the store file succeeds, and when it returns the key is gone from the
\* store file too.
Expiry ==
    (lastOp.op = "get" /\ IsEntry(lastOp.pre)) =>
        LET age == lastOp.t - lastOp.pre.lastBuildTime
            key == lastOp.p \o ":" \o lastOp.c
        IN /\ age <= CACHE_TTL => lastOp.out = RetEntry(lastOp.pre)
           /\ age > CACHE_TTL =>
                 /\ lastOp.out \in {RetEntry(NoEntry), Err("CACHE_ERROR")}
                 /\ lastOp.ws = <<"ok">> => lastOp.out = RetEntry(NoEntry)
                 /\ key \notin DOMAIN cache
                 /\ lastOp.out = RetEntry(NoEntry) =>
                        (file.kind = "json" /\ key \notin DOMAIN file.data)

\* a get of an entry one millisecond older than CACHE_TTL
ExpiryWitness ==
    /\ lastOp.op = "get"
    /\ IsEntry(lastOp.pre)
    /\ lastOp.t - lastOp.pre.lastBuildTime = CACHE_TTL + 1
    /\ lastOp.out = RetEntry(NoEntry)
    /\ file.kind = "json"
    /\ (lastOp.p \o ":" \o lastOp.c) \notin DOMAIN file.data

\* C3.  Key uniqueness: after a sequence of set calls on the new object the
\* store holds exactly one entry for each (projectPath, crateName) pair that
\* was set: as many entries as pairs, and each pair's entry is the pair's.
KeyUniqueness ==
    hist.onlySets =>
        /\ Cardinality(DOMAIN cache) = Cardinality(hist.pairs)
        /\ \A pc \in hist.pairs :
              \E k \in DOMAIN cache :
                  cache[k].projectPath = pc[1] /\ cache[k].crateName = pc[2]

\* C4.  Distinct pairs occupy distinct entries: the entry a get(p, c)
\* returns was set for (p, c), never for another pair.
DistinctPairsDistinctEntries ==
    (lastOp.op = "get" /\ lastOp.out.kind = "entry" /\ IsEntry(lastOp.out.val)) =>
        /\ lastOp.out.val.projectPath = lastOp.p
        /\ lastOp.out.val.crateName = lastOp.c

----------------------------------------------------------------------------
(* Properties of DocManager, checked under Spec *)

\* the entry-point path of the operation just completed, as the claims
\* spell it: T/doc/c/index.html
ExpectedDocPath == [dir |-> lastOp.env.metaOut \o "/doc/" \o lastOp.c, base |-> "index.html"]

\* the key of the operation just completed
LastKey == lastOp.p \o ":" \o lastOp.c

\* the operation just completed found an entry under its key that had not
\* expired
FoundFresh == IsEntry(lastOp.pre) /\ lastOp.t - lastOp.pre.lastBuildTime <= CACHE_TTL

\* C5.  Status caching: a checkDoc that finds no entry, gets the target
\* directory and finds no entry-point file returns false (it returns when
\* its write of the store file succeeds) and leaves an entry with
\* isBuilt=false; a checkDoc that finds such an entry within CACHE_TTL
\* returns false and runs no cargo command.
StatusCaching ==
    lastOp.op = "checkDoc" /\ lastOp.env.manifest =>
        /\ (/\ ~IsEntry(lastOp.pre)
            /\ lastOp.env.metaOut \in TargetDirs
            /\ ExpectedDocPath \notin lastOp.env.disk) =>
               /\ lastOp.out \in {RetBool(FALSE), Err("CARGO_ERROR")}
               /\ lastOp.ws[1] = "ok" => lastOp.out = RetBool(FALSE)
               /\ lastOp.meta = 1
               /\ LastKey \in DOMAIN cache
               /\ cache[LastKey].isBuilt = FALSE
        /\ (FoundFresh /\ ~lastOp.pre.isBuilt) =>
               /\ lastOp.out = RetBool(FALSE)
               /\ lastOp.meta = 0
               /\ lastOp.build = 0

\* a later checkDoc, the entry-point file now there, answered false from the
\* entry an earlier checkDoc made
StatusCachingWitness ==
    /\ lastOp.op = "checkDoc"
    /\ IsEntry(lastOp.pre)
    /\ ~lastOp.pre.isBuilt
    /\ lastOp.pre.lastBuildTime < lastOp.t
    /\ lastOp.env.disk # {}
    /\ lastOp.out = RetBool(FALSE)
    /\ lastOp.meta = 0

\* C6.  A checkDoc that finds an entry that has not expired returns that
\* entry's isBuilt, whether the entry-point file exists or not, and changes
\* neither the in-memory store nor the store file.
HitReturnsCached ==
    [][(/\ lastOp'.op = "checkDoc"
        /\ lastOp'.env.manifest
        /\ IsEntry(lastOp'.pre)
        /\ lastOp'.t - lastOp'.pre.lastBuildTime <= CACHE_TTL) =>
           /\ lastOp'.out = RetBool(lastOp'.pre.isBuilt)
           /\ lastOp'.access = 0
           /\ lastOp'.writes = 0
           /\ cache' = cache
           /\ file' = file]_vars

\* a checkDoc answered true from the cache while the entry-point file is
\* not there
HitReturnsCachedWitness ==
    /\ lastOp.op = "checkDoc"
    /\ FoundFresh
    /\ lastOp.pre.isBuilt
    /\ lastOp.env.disk = {}
    /\ lastOp.out = RetBool(TRUE)
    /\ lastOp.pre.lastBuildTime < lastOp.t

\* C7.  A checkDoc that misses and gets the target directory returns true if
\* and only if the entry-point file exists, and the entry it leaves has that
\* existence as isBuilt and the computed path as docPath.
MissReportsExistence ==
    (/\ lastOp.op = "checkDoc"
     /\ lastOp.meta = 1
     /\ lastOp.env.metaOut \in TargetDirs
     /\ lastOp.out.kind = "bool") =>
        /\ lastOp.out.val = (ExpectedDocPath \in lastOp.env.disk)
        /\ LastKey \in DOMAIN cache
        /\ cache[LastKey].isBuilt = (ExpectedDocPath \in lastOp.env.disk)
        /\ cache[LastKey].docPath = ExpectedDocPath

\* C8.  Build success: a buildDoc of a project with a manifest, whose build
\* exits 0 and whose metadata query reports T, leaves under its key the
\* entry (p, c, T/doc/c/index.html, isBuilt=true) stamped with the time of
\* the call, whatever was there before, and returns T/doc/c/index.html (it
\* returns when its write of the store file succeeds).
BuildSuccess ==
    (/\ lastOp.op = "buildDoc"
     /\ lastOp.env.manifest
     /\ lastOp.arg.exit = 0
     /\ lastOp.env.metaOut \in TargetDirs) =>
        /\ lastOp.out \in {RetPath(ExpectedDocPath), Err("BUILD_FAILED")}
        /\ lastOp.ws[1] = "ok" => lastOp.out = RetPath(ExpectedDocPath)
        /\ LastKey \in DOMAIN cache
        /\ cache[LastKey] = [crateName |-> lastOp.c, projectPath |-> lastOp.p,
                             docPath |-> ExpectedDocPath, lastBuildTime |-> lastOp.t,
                             isBuilt |-> TRUE]
        /\ lastOp.out.kind = "path" => file = JsonFile(cache)

\* a successful buildDoc over an entry that said isBuilt=false
BuildSuccessWitness ==
    /\ lastOp.op = "buildDoc"
    /\ lastOp.out = RetPath(ExpectedDocPath)
    /\ IsEntry(lastOp.pre)
    /\ ~lastOp.pre.isBuilt
    /\ cache[LastKey].isBuilt
    /\ cache[LastKey].lastBuildTime > lastOp.pre.lastBuildTime

\* C9.  Invalid project: a checkDoc or buildDoc of a project without a
\* Cargo.toml directly under it fails with INVALID_PATH and starts neither
\* the metadata query nor the doc build.
InvalidProject ==
    (lastOp.op \in {"checkDoc", "buildDoc"} /\ ~lastOp.env.manifest) =>
        /\ lastOp.out = Err("INVALID_PATH")
        /\ lastOp.meta = 0
        /\ lastOp.build = 0

\* a buildDoc of a project without manifest
InvalidProjectWitness ==
    /\ lastOp.op = "buildDoc"
    /\ ~lastOp.env.manifest
    /\ lastOp.out = Err("INVALID_PATH")
    /\ lastOp.build = 0

\* C10.  Precondition: a listSymbols or searchDoc whose checkDoc gives false
\* fails with SEARCH_FAILED, having listed no directory and read no file of
\* the documentation tree.
BuiltPrecondition ==
    (lastOp.op \in {"listSymbols", "searchDoc"} /\ lastOp.status = RetBool(FALSE)) =>
        /\ lastOp.out = Err("SEARCH_FAILED")
        /\ lastOp.readdirs = 0
        /\ lastOp.reads = 0

\* a searchDoc refused on a cached false while the entry-point file exists
BuiltPreconditionWitness ==
    /\ lastOp.op = "searchDoc"
    /\ lastOp.status = RetBool(FALSE)
    /\ lastOp.env.disk # {}
    /\ lastOp.out = Err("SEARCH_FAILED")
    /\ lastOp.readdirs = 0

----------------------------------------------------------------------------
(* Properties of the indexer, checked under SpecIndex *)

\* the directory the traversal of the operation just completed starts in
\* (the target directory is /t in every run)
DocDir == "/t" \o "/doc/" \o lastOp.c

\* every file at any depth below a directory, with the names of the
\* directories that lead to it from the traversal root
RECURSIVE FilesBelow(_, _)
FilesBelow(dir, dirs) ==
    UNION {IF dir.kids[i].isDir
           THEN FilesBelow(dir.kids[i], Append(dirs, dir.kids[i].name))
           ELSE {[dirs |-> dirs, name |-> dir.kids[i].name, text |-> dir.kids[i].text,
                  ok |-> dir.kids[i].ok]} :
           i \in 1..Len(dir.kids)}

\* the name of a file ends in .html and is not index.html
IsPage(name) ==
    /\ Len(name) >= 5
    /\ SubSeq(name, Len(name) - 4, Len(name)) = <<".", "h", "t", "m", "l">>
    /\ name # <<"i", "n", "d", "e", "x", ".", "h", "t", "m", "l">>

\* a file lies below a directory named src or implementors
UnderSkipped(f) ==
    \E i \in 1..Len(f.dirs) :
        f.dirs[i] \in {<<"s", "r", "c">>,
                       <<"i", "m", "p", "l", "e", "m", "e", "n", "t", "o", "r", "s">>}

\* the documentation pages of the tree the operation just completed ran on
Pages ==
    {f \in FilesBelow(lastOp.arg.tree, <<>>) : IsPage(f.name) /\ ~UnderSkipped(f)}

\* two characters are the same letter, capital or small
SameLetter(a, b) ==
    \/ a = b
    \/ \E k \in 1..26 : {a, b} = {Upper[k], Lower[k]}

\* text contains q as a substring, ignoring letter case
ContainsIgnoringCase(text, q) ==
    \E i \in 0..(Len(text) - Len(q)) :
        \A j \in 1..Len(q) : SameLetter(text[i + j], q[j])

\* the pages that hold the query of the searchDoc just completed
MatchingPages == {f \in Pages : ContainsIgnoringCase(f.text, lastOp.arg.query)}

\* the place of a file as a result names it: the traversal root and the
\* names from there down to the file
PlaceOf(f) == <<DocDir>> \o f.dirs \o <<f.name>>

Smaller(a, b) == IF a <= b THEN a ELSE b

\* C11.  Search limiting: a searchDoc with limit L >= 1 that returns,
\* returns exactly min(L, number of pages that hold the query) results; on
\* ten such pages with limit 3, three results.
SearchLimiting ==
    (/\ lastOp.op = "searchDoc"
     /\ lastOp.out.kind = "list"
     /\ lastOp.arg.limit >= 1) =>
        Len(lastOp.out.val) = Smaller(lastOp.arg.limit, Cardinality(MatchingPages))

\* ten pages hold the query and the limit is 3: three results
SearchLimitingWitness ==
    /\ lastOp.op = "searchDoc"
    /\ lastOp.out.kind = "list"
    /\ lastOp.arg.limit = 3
    /\ Cardinality(MatchingPages) = 10
    /\ Len(lastOp.out.val) = 3

\* a place lies below a directory named src or implementors that is below
\* the traversal root
PlaceUnderSkipped(place) ==
    \E i \in 2..(Len(place) - 1) :
        place[i] \in {<<"s", "r", "c">>,
                      <<"i", "m", "p", "l", "e", "m", "e", "n", "t", "o", "r", "s">>}

\* the files the traversal of the operation just completed hands to its
\* file handler, in order
HandedFiles ==
    SelectSeq(traverseDirectory(lastOp.arg.tree, <<DocDir>>, <<>>),
              LAMBDA st : st.kind = "file")

\* C12.  Directory exclusion: a listSymbols or searchDoc returns no file
\* that lies below a directory named src or implementors, at whatever depth
\* below the traversal root that directory is; its traversal hands no such
\* file to the file handler, and searchDoc reads no more files than there
\* are pages outside those directories.
DirectoryExclusion ==
    lastOp.op \in {"listSymbols", "searchDoc"} /\ lastOp.readdirs > 0 =>
        /\ \A i \in 1..Len(HandedFiles) : ~PlaceUnderSkipped(HandedFiles[i].path)
        /\ lastOp.reads <= Cardinality(Pages)
        /\ lastOp.out.kind = "list" =>
              \A i \in 1..Len(lastOp.out.val) :
                  ~PlaceUnderSkipped(lastOp.out.val[i].url.path)

\* a searchDoc without limit returns results from a tree that has a page
\* holding the query below m/n/implementors
DirectoryExclusionWitness ==
    /\ lastOp.op = "searchDoc"
    /\ lastOp.arg.limit = 0
    /\ lastOp.out.kind = "list"
    /\ Len(lastOp.out.val) > 0
    /\ \E f \in FilesBelow(lastOp.arg.tree, <<>>) :
          /\ Len(f.dirs) = 3
          /\ f.dirs[3] = <<"i", "m", "p", "l", "e", "m", "e", "n", "t", "o", "r", "s">>
          /\ IsPage(f.name)
          /\ ContainsIgnoringCase(f.text, lastOp.arg.query)

\* the eight kinds of item a documentation page may be of
Keywords ==
    {<<"s", "t", "r", "u", "c", "t">>, <<"e", "n", "u", "m">>,
     <<"t", "r", "a", "i", "t">>, <<"f", "n">>, <<"c", "o", "n", "s", "t">>,
     <<"t", "y", "p", "e">>, <<"m", "a", "c", "r", "o">>, <<"m", "o", "d">>}

\* names as the file name has them and with every - replaced by ::
Replaced ==
    {<<<<"x">>, <<"x">>>>,
     <<<<"X">>, <<"X">>>>,
     <<<<"z">>, <<"z">>>>,
     <<<<"a", "-", "b">>, <<"a", ":", ":", "b">>>>,
     <<<<"F", "o", "o", "-", "B", "a", "r">>,
       <<"F", "o", "o", ":", ":", "B", "a", "r">>>>,
     <<<<"a", "-", "b", "-", "c">>, <<"a", ":", ":", "b", ":", ":", "c">>>>,
     <<<<"-">>, <<":", ":">>>>,
     <<<<"a", ".", "b">>, <<"a", ".", "b">>>>}

\* the file names <kind>.<name>.html, with their kind and the name replaced
Forms ==
    {[file |-> k \o <<".">> \o pr[1] \o <<".", "h", "t", "m", "l">>, kind |-> k,
      name |-> pr[2]] : k \in Keywords, pr \in Replaced}

\* a file name is some keyword, a dot, a name of at least one character,
\* and .html
OfForm(fileName) ==
    \E k \in Keywords :
        /\ Len(fileName) > Len(k) + 1 + 5
        /\ SubSeq(fileName, 1, Len(k) + 1) = k \o <<".">>
        /\ SubSeq(fileName, Len(fileName) - 4, Len(fileName)) = <<".", "h", "t", "m", "l">>

\* the files directly under the root of the tree of the operation just
\* completed whose names end in .html, index.html apart
RootPages ==
    {lastOp.arg.tree.kids[i].name : i \in
        {j \in 1..Len(lastOp.arg.tree.kids) :
            /\ ~lastOp.arg.tree.kids[j].isDir
            /\ IsPage(lastOp.arg.tree.kids[j].name)}}

\* the symbols the listSymbols just completed returned for the file of
\* this name directly under the root
SymbolsOf(name) ==
    {i \in 1..Len(lastOp.out.val) : lastOp.out.val[i].url.path = <<DocDir, name>>}

\* C13.  Symbol parsing: for a file <kind>.<name>.html directly under the
\* crate root, <kind> one of the eight keywords, listSymbols returns one
\* symbol, of that kind, named <name> with every - replaced by :: and with
\* the path crateName::name; for a file whose name is not of that form it
\* returns no symbol, and it does return.
SymbolParsing ==
    /\ (lastOp.op = "listSymbols" /\ lastOp.out.kind = "list") =>
          \A page \in RootPages :
              /\ \A form \in Forms :
                    form.file = page =>
                        \E i \in SymbolsOf(page) :
                            /\ SymbolsOf(page) = {i}
                            /\ lastOp.out.val[i].type = form.kind
                            /\ lastOp.out.val[i].name = form.name
                            /\ lastOp.out.val[i].path
                                 = CrateText(lastOp.c) \o <<":", ":">> \o form.name
              /\ OfForm(page) => Cardinality(SymbolsOf(page)) = 1
              /\ ~OfForm(page) => SymbolsOf(page) = {}
    /\ (/\ lastOp.op = "listSymbols"
        /\ lastOp.status = RetBool(TRUE)
        /\ lastOp.arg.tree \in ParseTrees) => lastOp.out.kind = "list"

\* struct.Foo-Bar.html directly under the root of my-crate gives the struct
\* Foo::Bar with the path my-crate::Foo::Bar
SymbolParsingWitness ==
    /\ lastOp.op = "listSymbols"
    /\ lastOp.c = "my-crate"
    /\ lastOp.out.kind = "list"
    /\ RootPages = {<<"s", "t", "r", "u", "c", "t", ".", "F", "o", "o", "-", "B", "a", "r",
                      ".", "h", "t", "m", "l">>}
    /\ Len(lastOp.out.val) = 1
    /\ lastOp.out.val[1].type = <<"s", "t", "r", "u", "c", "t">>
    /\ lastOp.out.val[1].name = <<"F", "o", "o", ":", ":", "B", "a", "r">>
    /\ lastOp.out.val[1].path
         = <<"m", "y", "-", "c", "r", "a", "t", "e", ":", ":", "F", "o", "o", ":", ":",
             "B", "a", "r">>

\* C20.  Matching: a searchDoc without limit that returns, returns one
\* result for each page whose content contains the query as a substring,
\* letter case ignored, and no other result.
SubstringMatching ==
    (/\ lastOp.op = "searchDoc"
     /\ lastOp.arg.limit = 0
     /\ lastOp.out.kind = "list") =>
        /\ Len(lastOp.out.val) = Cardinality(MatchingPages)
        /\ {lastOp.out.val[i].url.path : i \in 1..Len(lastOp.out.val)}
             = {PlaceOf(f) : f \in MatchingPages}

\* a searchDoc without limit over pages that hold the query in another
\* letter case, inside a longer text, and not at all
SubstringMatchingWitness ==
    /\ lastOp.op = "searchDoc"
    /\ lastOp.arg.limit = 0
    /\ lastOp.out.kind = "list"
    /\ Len(lastOp.out.val) = 2
    /\ \E f \in MatchingPages : f.text = <<"F", "o">>
    /\ \E f \in MatchingPages : f.text = <<"o", "f", "o">>
    /\ \E f \in Pages \ MatchingPages : f.text = <<"o", "f">>

\* C21.  Sorted results: the results a searchDoc returns are in ascending
\* order of their titles, with a limit and without, in whatever order the
\* entries of the directories are reported.
SortedResults ==
    (lastOp.op = "searchDoc" /\ lastOp.out.kind = "list") =>
        \A i \in 1..(Len(lastOp.out.val) - 1) :
            localeCompare(lastOp.out.val[i].title, lastOp.out.val[i + 1].title) <= 0

\* a searchDoc with limit 2 whose traversal meets the page titled c::X
\* before the page titled all, and which returns all first
SortedResultsWitness ==
    /\ lastOp.op = "searchDoc"
    /\ lastOp.arg.limit = 2
    /\ lastOp.out.kind = "list"
    /\ Len(lastOp.out.val) = 2
    /\ HandedFiles[1].name = <<"s", "t", "r", "u", "c", "t", ".", "X", ".", "h", "t", "m", "l">>
    /\ lastOp.out.val[1].title = <<"a", "l", "l">>
    /\ lastOp.out.val[2].title = <<"c", ":", ":", "X">>

\* a directory and the directories at any depth below it, with the names
\* that lead to each from the traversal root and whether it can be listed
RECURSIVE DirsBelow(_, _)
DirsBelow(dir, dirs) ==
    {[dirs |-> dirs, ok |-> dir.ok]}
    \cup UNION {IF dir.kids[i].isDir
                THEN DirsBelow(dir.kids[i], Append(dirs, dir.kids[i].name))
                ELSE {} : i \in 1..Len(dir.kids)}

\* a directory is named src or implementors or lies below such a directory
Skipped(d) ==
    \E i \in 1..Len(d.dirs) :
        d.dirs[i] \in {<<"s", "r", "c">>,
                       <<"i", "m", "p", "l", "e", "m", "e", "n", "t", "o", "r", "s">>}

\* the places of the directories of the tree of the operation just
\* completed that cannot be listed, and of its pages that cannot be read
UnlistablePlaces ==
    {<<DocDir>> \o d.dirs : d \in {x \in DirsBelow(lastOp.arg.tree, <<>>) :
                                      ~x.ok /\ ~Skipped(x)}}

UnreadablePlaces == {PlaceOf(f) : f \in {x \in Pages : ~x.ok}}

\* C22.  Traversal failure: a listSymbols or searchDoc whose traversal
\* meets a directory that cannot be listed, and a searchDoc without limit
\* that meets a page that cannot be read, fails with SEARCH_FAILED; every
\* traversal that fails, fails with SEARCH_FAILED, and the error carries
\* the I/O error of the directory or page that could not be read.
TraversalFailure ==
    (lastOp.op \in {"listSymbols", "searchDoc"} /\ lastOp.readdirs > 0) =>
        /\ UnlistablePlaces # {} => lastOp.out.kind = "err"
        /\ (/\ lastOp.op = "searchDoc"
            /\ lastOp.arg.limit = 0
            /\ UnreadablePlaces # {}) => lastOp.out.kind = "err"
        /\ lastOp.out.kind = "err" =>
              /\ lastOp.out.code = "SEARCH_FAILED"
              /\ "details" \in DOMAIN lastOp.out
              /\ \/ /\ lastOp.out.details.syscall = "scandir"
                    /\ lastOp.out.details.path \in UnlistablePlaces
                 \/ /\ lastOp.op = "searchDoc"
                    /\ lastOp.out.details.syscall = "open"
                    /\ lastOp.out.details.path \in UnreadablePlaces

\* the documentation directory is gone while the store says isBuilt=true:
\* a listSymbols answered from the store fails on listing the directory
TraversalFailureWitness ==
    /\ lastOp.op = "listSymbols"
    /\ IsEntry(lastOp.pre)
    /\ lastOp.pre.isBuilt
    /\ lastOp.meta = 0
    /\ lastOp.arg.tree = NoTree
    /\ lastOp.readdirs = 1
    /\ lastOp.out = [kind |-> "err", code |-> "SEARCH_FAILED",
                     details |-> [name |-> "Error", syscall |-> "scandir",
                                  path |-> <<"/t/doc/c">>]]

RECURSIVE Qualified(_)
\* the segments joined by ::
Qualified(segments) ==
    IF Len(segments) = 1 THEN segments[1]
    ELSE segments[1] \o <<":", ":">> \o Qualified(Tail(segments))

\* the pages whose file names are <kind>.<name>.html
SymbolPages == {f \in Pages : OfForm(f.name)}

\* C31.  Nested module path: for a page <kind>.<name>.html below the
\* directories d1/.../dn of the traversal root, the symbol listSymbols
\* returns and the title searchDoc returns have the path
\* crateName::d1::...::dn::name, the directory names in descent order,
\* whatever directories were visited before.
NestedModulePath ==
    /\ (lastOp.op = "listSymbols" /\ lastOp.out.kind = "list") =>
          \A f \in SymbolPages :
              \E i \in 1..Len(lastOp.out.val) :
                  /\ lastOp.out.val[i].url.path = PlaceOf(f)
                  /\ lastOp.out.val[i].path
                       = Qualified(<<CrateText(lastOp.c)>> \o f.dirs
                                   \o <<lastOp.out.val[i].name>>)
    /\ (lastOp.op = "searchDoc" /\ lastOp.out.kind = "list") =>
          \A i \in 1..Len(lastOp.out.val) :
              \A f \in SymbolPages :
                  lastOp.out.val[i].url.path = PlaceOf(f) =>
                      \E k \in Keywords :
                          /\ SubSeq(f.name, 1, Len(k) + 1) = k \o <<".">>
                          /\ lastOp.out.val[i].title
                               = Qualified(<<CrateText(lastOp.c)>> \o f.dirs
                                           \o <<replaceHyphens(
                                                  SubSeq(f.name, Len(k) + 2,
                                                         Len(f.name) - 5))>>)

\* listSymbols on the tree with m/n/struct.A.html, m/fn.b.html,
\* p/enum.C.html and trait.D.html returned c::m::n::A, c::m::b, c::p::C and
\* c::D
NestedModulePathWitness ==
    /\ lastOp.op = "listSymbols"
    /\ lastOp.out.kind = "list"
    /\ {lastOp.out.val[i].path : i \in 1..Len(lastOp.out.val)}
         = {<<"c", ":", ":", "m", ":", ":", "n", ":", ":", "A">>,
            <<"c", ":", ":", "m", ":", ":", "b">>,
            <<"c", ":", ":", "p", ":", ":", "C">>,
            <<"c", ":", ":", "D">>}

\* the positions, in the order of the traversal, of the files handed to
\* the handler that hold the query
MatchAt ==
    {i \in 1..Len(HandedFiles) :
        ContainsIgnoringCase(HandedFiles[i].text, lastOp.arg.query)}

\* the position of the file with which limit results are collected; the
\* last position when fewer files hold the query
StopAt(limit) ==
    IF Cardinality(MatchAt) >= limit
    THEN CHOOSE i \in MatchAt : Cardinality({j \in MatchAt : j <= i}) = limit
    ELSE Len(HandedFiles)

\* C33.  Early stop: a searchDoc with limit L >= 1 reads no file after the
\* one that gave it its L-th result, and a searchDoc that returns has read
\* every file up to that one and returns L results (every file, and one
\* result for each that holds the query, when fewer than L hold it);
\* without limit it reads every file and returns a result for each that
\* holds the query.
EarlyStop ==
    (lastOp.op = "searchDoc" /\ lastOp.readdirs > 0) =>
        /\ lastOp.arg.limit >= 1 => lastOp.reads <= StopAt(lastOp.arg.limit)
        /\ (lastOp.out.kind = "list" /\ lastOp.arg.limit >= 1) =>
              /\ lastOp.reads = StopAt(lastOp.arg.limit)
              /\ Len(lastOp.out.val) = Smaller(lastOp.arg.limit, Cardinality(MatchAt))
        /\ (lastOp.out.kind = "list" /\ lastOp.arg.limit = 0) =>
              /\ lastOp.reads = Len(HandedFiles)
              /\ Len(lastOp.out.val) = Cardinality(MatchAt)

\* a searchDoc with limit 1 whose first file does not hold the query and
\* whose second does: two reads, one result, and a file left unread
EarlyStopWitness ==
    /\ lastOp.op = "searchDoc"
    /\ lastOp.arg.limit = 1
    /\ lastOp.out.kind = "list"
    /\ Len(HandedFiles) >= 3
    /\ 1 \notin MatchAt
    /\ 2 \in MatchAt
    /\ lastOp.reads = 2
    /\ Len(lastOp.out.val) = 1

\* the pages from the i-th entry of a directory on, depth first: the
\* entries in the order fs.readdir gives them, the pages below a directory
\* in the place of that directory; each with its place and its content
RECURSIVE DepthFirst(_, _, _)
DepthFirst(dir, dirs, i) ==
    IF i > Len(dir.kids) THEN <<>>
    ELSE (IF dir.kids[i].isDir
          THEN IF UnderSkipped([dirs |-> <<dir.kids[i].name>>]) THEN <<>>
               ELSE DepthFirst(dir.kids[i], Append(dirs, dir.kids[i].name), 1)
          ELSE IF IsPage(dir.kids[i].name)
          THEN <<[place |-> <<DocDir>> \o dirs \o <<dir.kids[i].name>>,
                  text |-> dir.kids[i].text]>>
          ELSE <<>>)
         \o DepthFirst(dir, dirs, i + 1)

\* the pages that hold the query, in depth-first order
MatchesInOrder ==
    SelectSeq(DepthFirst(lastOp.arg.tree, <<>>, 1),
              LAMBDA f : ContainsIgnoringCase(f.text, lastOp.arg.query))

\* the places of the first limit pages, in depth-first order, that hold
\* the query
FirstMatches(limit) == {MatchesInOrder[i].place : i \in 1..limit}

\* C34.  Limit picks in traversal order: a searchDoc with limit L >= 1 on a
\* tree where more than L files hold the query returns exactly the first L
\* of them in the order of the traversal (directory entries in the order
\* fs.readdir gives them, a directory's files before the entries after it),
\* each once, ordered by title.
FirstInTraversalOrder ==
    (/\ lastOp.op = "searchDoc"
     /\ lastOp.out.kind = "list"
     /\ lastOp.arg.limit >= 1
     /\ Len(MatchesInOrder) > lastOp.arg.limit) =>
        /\ {lastOp.out.val[i].url.path : i \in 1..Len(lastOp.out.val)}
             = FirstMatches(lastOp.arg.limit)
        /\ Len(lastOp.out.val) = lastOp.arg.limit
        /\ \A i \in 1..(Len(lastOp.out.val) - 1) :
              localeCompare(lastOp.out.val[i].title, lastOp.out.val[i + 1].title) <= 0

\* a searchDoc with limit 1 returned the page titled c::X, which fs.readdir
\* gave first, while the page all.html, titled all, holds the query too
FirstInTraversalOrderWitness ==
    /\ lastOp.op = "searchDoc"
    /\ lastOp.arg.limit = 1
    /\ lastOp.out.kind = "list"
    /\ Len(lastOp.out.val) = 1
    /\ lastOp.out.val[1].title = <<"c", ":", ":", "X">>
    /\ \E i \in 2..Len(MatchesInOrder) :
          MatchesInOrder[i].place = <<DocDir, <<"a", "l", "l">> \o Html>>
    /\ localeCompare(<<"a", "l", "l">>, lastOp.out.val[1].title) < 0

\* C30.  The search_doc tool returns at most limit results when its
\* arguments hold a limit, and at most 10 results when they hold none.
SearchToolLimit ==
    (lastOp.op = "search_doc" /\ lastOp.out.kind = "list") =>
        Len(lastOp.out.val) <=
            IF "limit" \in DOMAIN lastOp.arg.args THEN lastOp.arg.args.limit ELSE 10

----------------------------------------------------------------------------
(* Properties of the coordinator's builds and failures, checked under Spec *)

\* C14.  Build failure: a buildDoc whose doc build exits non-zero fails with
\* BUILD_FAILED, and the error it carries holds what cargo wrote to its
\* standard error.
BuildFailure ==
    (/\ lastOp.op = "buildDoc"
     /\ lastOp.build > 0
     /\ lastOp.arg.exit # 0) =>
        /\ lastOp.out.kind = "err"
        /\ lastOp.out.code = "BUILD_FAILED"
        /\ "details" \in DOMAIN lastOp.out
        /\ lastOp.out.details.stderr = lastOp.arg.stderr

\* a doc build that exits with 101 after cargo wrote its error
BuildFailureWitness ==
    /\ lastOp.op = "buildDoc"
    /\ lastOp.arg.exit = 101
    /\ lastOp.arg.stderr = "error: could not document"
    /\ lastOp.out.kind = "err"
    /\ lastOp.out.code = "BUILD_FAILED"
    /\ lastOp.out.details.stderr = "error: could not document"

\* two calls end alike: with the same path returned, or with the same
\* error code
SameOutcome(a, b) ==
    \/ a.kind = "path" /\ b.kind = "path" /\ a.val = b.val
    \/ a.kind = "err" /\ b.kind = "err" /\ a.code = b.code

\* the buildDoc the step makes, made with the other value of noDeps: same
\* store, clock, project, crate, cargo and write outcomes
OtherBuild ==
    buildDoc(cache, file, now, lastOp'.p, lastOp'.c, lastOp'.env.manifest,
             cargoDoc(lastOp'.arg.tc, buildArgs(lastOp'.c, ~lastOp'.arg.noDeps)),
             lastOp'.env.metaOut, lastOp'.ws)

\* C15.  skipDependencies is a pass-through: a buildDoc with noDeps=true
\* and one with noDeps=false, made in the same state with the same cargo,
\* end alike and leave the same store.
SkipDependenciesPassThrough ==
    [][(started = "running" /\ lastOp'.op = "buildDoc" /\ lastOp'.build > 0) =>
          /\ SameOutcome(OtherBuild.out, lastOp'.out)
          /\ OtherBuild.cache = cache'
          /\ OtherBuild.file = file']_vars

\* a write of the store file the operation just completed made has failed
WriteFailed == \E i \in 1..lastOp.writes : lastOp.ws[i] # "ok"

\* C16.  Store failures are cache errors: an initialize, checkDoc, buildDoc,
\* getDocPath, listSymbols or searchDoc during which a write of the store
\* file fails ends in CACHE_ERROR: in no other error and in no normal result.
StoreFailureIsCacheError ==
    (/\ lastOp.op \in {"initialize", "checkDoc", "buildDoc", "getDocPath",
                       "listSymbols", "searchDoc"}
     /\ WriteFailed) =>
        /\ lastOp.out.kind = "err"
        /\ lastOp.out.code = "CACHE_ERROR"

\* C17.  Toolchain failure: a checkDoc that finds no entry and whose
\* metadata query fails (non-zero exit, or output that is no JSON) fails
\* with CARGO_ERROR; it puts no entry under its key, neither in memory nor
\* in the store file: all it may have done to the store is the removal of
\* an expired entry under that key.
ToolchainFailure ==
    [][(/\ lastOp'.op = "checkDoc"
        /\ lastOp'.meta = 1
        /\ lastOp'.env.metaOut = "fail") =>
          /\ lastOp'.out.kind = "err"
          /\ lastOp'.out.code = "CARGO_ERROR"
          /\ getCacheKey(lastOp'.p, lastOp'.c) \notin DOMAIN cache'
          /\ \A k \in DOMAIN cache' : k \in DOMAIN cache /\ cache'[k] = cache[k]
          /\ \/ file' = file
             \/ /\ IsEntry(lastOp'.pre)
                /\ file' = JsonFile(cache')]_vars

\* a checkDoc whose lookup removed an expired entry and whose metadata
\* query then failed
ToolchainFailureWitness ==
    /\ lastOp.op = "checkDoc"
    /\ lastOp.meta = 1
    /\ lastOp.env.metaOut = "fail"
    /\ IsEntry(lastOp.pre)
    /\ lastOp.writes = 1
    /\ lastOp.out = Err("CARGO_ERROR")
    /\ LastKey \notin DOMAIN cache

\* the entries of a directory, whatever their order
EntriesOf(dir) == {dir.kids[i] : i \in 1..Len(dir.kids)}

\* the trees that are the tree of the operation just completed with the
\* entries of its root in another order
Reordered ==
    {tree \in IndexTrees :
        /\ tree.ok = lastOp.arg.tree.ok
        /\ Len(tree.kids) = Len(lastOp.arg.tree.kids)
        /\ EntriesOf(tree) = EntriesOf(lastOp.arg.tree)}

\* what listSymbols returns for a tree it can traverse
Listing(tree) ==
    listSymbolsTraversed(
        MgrResult(cache, file, Void, Void, 0, 0, 0, 0, 0, 0),
        [cache |-> cache, file |-> file, writes |-> 0],
        runSymbolHandler(traverseDirectory(tree, <<DocDir>>, <<>>), 1,
                         CrateText(lastOp.c), <<>>, 0)).out

\* C18.  Sorted listing: the symbols listSymbols returns are in ascending
\* order of their paths, and they are the same sequence whatever the order
\* in which the entries of the directory are reported.
SortedListing ==
    (lastOp.op = "listSymbols" /\ lastOp.out.kind = "list") =>
        /\ \A i \in 1..(Len(lastOp.out.val) - 1) :
              localeCompare(lastOp.out.val[i].path, lastOp.out.val[i + 1].path) <= 0
        /\ \A tree \in Reordered : Listing(tree) = lastOp.out

\* C19.  Vanished entry: a listSymbols or searchDoc whose checkDoc gave
\* true and whose lookup after it finds no entry (the entry expired in
\* between) fails with CACHE_ERROR, not SEARCH_FAILED, and lists no
\* directory and reads no file of the documentation tree.
VanishedEntry ==
    (/\ lastOp.op \in {"listSymbols", "searchDoc"}
     /\ lastOp.status = RetBool(TRUE)
     /\ LastKey \notin DOMAIN cache) =>
        /\ lastOp.out = Err("CACHE_ERROR")
        /\ lastOp.readdirs = 0
        /\ lastOp.reads = 0

\* a listSymbols whose entry was CACHE_TTL old at its checkDoc and older
\* at its lookup, the removal being written to the store file
VanishedEntryWitness ==
    /\ lastOp.op = "listSymbols"
    /\ lastOp.status = RetBool(TRUE)
    /\ IsEntry(lastOp.pre)
    /\ lastOp.t - lastOp.pre.lastBuildTime = CACHE_TTL
    /\ lastOp.arg.d = 1
    /\ lastOp.ws[1] = "ok"
    /\ LastKey \notin DOMAIN cache
    /\ file = JsonFile(cache)
    /\ lastOp.out = Err("CACHE_ERROR")
    /\ lastOp.readdirs = 0

----------------------------------------------------------------------------
(* Properties of the entry a check or a build leaves, checked under Spec *)

\* the checkDoc or buildDoc just completed returned a value
Completed ==
    /\ lastOp.op \in {"checkDoc", "buildDoc"}
    /\ lastOp.out.kind \in {"bool", "path"}

\* the checkDoc just completed was answered from the cache
AnsweredFromCache == lastOp.op = "checkDoc" /\ FoundFresh

\* C25 as stated.  Every checkDoc or buildDoc for (p, c) that returns a
\* value leaves the entry of (p, c) with lastBuildTime equal to the time of
\* the call, a checkDoc answered from the cache included.
RefreshedByEveryCall ==
    Completed =>
        /\ LastKey \in DOMAIN cache
        /\ cache[LastKey].lastBuildTime = lastOp.t

\* C25.  Every buildDoc for (p, c) that returns a value, and every checkDoc
\* that returns one without being answered from the cache, leaves the entry
\* of (p, c) with lastBuildTime equal to the time of the call; a checkDoc
\* answered from the cache leaves the entry with the lastBuildTime it had.
RefreshedByCheckOrBuild ==
    Completed =>
        /\ LastKey \in DOMAIN cache
        /\ cache[LastKey].lastBuildTime =
               IF AnsweredFromCache THEN lastOp.pre.lastBuildTime ELSE lastOp.t

\* a buildDoc that returned over an older entry, and the entry now carries
\* the time of the call
RefreshedByCheckOrBuildWitness ==
    /\ Completed
    /\ lastOp.op = "buildDoc"
    /\ IsEntry(lastOp.pre)
    /\ lastOp.pre.lastBuildTime < lastOp.t
    /\ cache[LastKey].lastBuildTime = lastOp.t

----------------------------------------------------------------------------
(* Properties of calls that follow one another, checked under Spec *)

\* the lastBuildTime of the entry the checkDoc of the listSymbols or
\* searchDoc just completed answered from or wrote
CheckedStamp == IF FoundFresh THEN lastOp.pre.lastBuildTime ELSE lastOp.t

\* the time of the lookup that follows the checkDoc
LookupTime == lastOp.t + lastOp.arg.d

\* the call just completed ended with a CacheError
IsCacheError == lastOp.out.kind = "err" /\ lastOp.out.code = "CACHE_ERROR"

\* C35.  The lookup after a positive checkDoc: in a listSymbols or
\* searchDoc whose checkDoc returned true, the lookup that follows finds the
\* entry, and the call does not end with a CacheError, whenever the entry is
\* at most CACHE_TTL old at that lookup; the call ends with a CacheError
\* only when the entry, not yet expired at the checkDoc, is older than
\* CACHE_TTL at the lookup.
LookupAfterCheck ==
    (lastOp.op \in {"listSymbols", "searchDoc"} /\ lastOp.status = RetBool(TRUE)) =>
        /\ lastOp.t - CheckedStamp <= CACHE_TTL
        /\ LookupTime - CheckedStamp <= CACHE_TTL =>
              /\ ~IsCacheError
              /\ LastKey \in DOMAIN cache
              /\ cache[LastKey].lastBuildTime = CheckedStamp
        /\ IsCacheError => LookupTime - CheckedStamp > CACHE_TTL

\* a searchDoc whose checkDoc was answered true from an entry CACHE_TTL
\* old, and whose lookup, a millisecond later, did not find the entry
LookupAfterCheckWitness ==
    /\ lastOp.op = "searchDoc"
    /\ lastOp.status = RetBool(TRUE)
    /\ FoundFresh
    /\ lastOp.t - CheckedStamp = CACHE_TTL
    /\ LookupTime - CheckedStamp = CACHE_TTL + 1
    /\ IsCacheError
    /\ LastKey \notin DOMAIN cache

\* the entry the store holds under k says the documentation is built, and
\* at the time t it has not expired
BuiltAt(mem, k, t) ==
    /\ k \in DOMAIN mem
    /\ mem[k].isBuilt
    /\ t - mem[k].lastBuildTime <= CACHE_TTL

\* C36.  Built stays built: a buildDoc that returns the documentation path
\* leaves under its key an entry with isBuilt=true stamped with the time of
\* the call, whatever the store held under the key before; no step of the
\* server takes away or turns to false an isBuilt=true entry that has not
\* expired when the step ends; and a checkDoc on a project with its
\* manifest that finds such an entry returns true and runs neither the
\* metadata query nor a doc build.
BuiltStaysBuilt ==
    [][/\ (lastOp'.op = "buildDoc" /\ lastOp'.out.kind = "path") =>
              /\ BuiltAt(cache', getCacheKey(lastOp'.p, lastOp'.c), lastOp'.t)
              /\ cache'[getCacheKey(lastOp'.p, lastOp'.c)].lastBuildTime = lastOp'.t
       /\ \A k \in DOMAIN cache :
              BuiltAt(cache, k, now') => BuiltAt(cache', k, now')
       /\ (/\ lastOp'.op = "checkDoc"
           /\ lastOp'.env.manifest
           /\ BuiltAt(cache, getCacheKey(lastOp'.p, lastOp'.c), lastOp'.t)) =>
              /\ lastOp'.out = RetBool(TRUE)
              /\ lastOp'.meta = 0
              /\ lastOp'.build = 0]_vars

\* a buildDoc that returned the path over the isBuilt=false entry a checkDoc
\* of the running server had left a millisecond before, the entry now
\* saying isBuilt=true
BuiltStaysBuiltWitness ==
    /\ lastOp.op = "buildDoc"
    /\ lastOp.out.kind = "path"
    /\ IsEntry(lastOp.pre)
    /\ ~lastOp.pre.isBuilt
    /\ lastOp.pre.lastBuildTime = CACHE_TTL
    /\ lastOp.t = CACHE_TTL + 1
    /\ BuiltAt(cache, LastKey, now)

----------------------------------------------------------------------------
(* Properties of calls that fail, checked under Spec *)

\* the call just completed found under its key an entry that had expired
FoundExpired == IsEntry(lastOp.pre) /\ lastOp.t - lastOp.pre.lastBuildTime > CACHE_TTL

\* C37.  Manifest before cache: a checkDoc or buildDoc on a project without
\* a Cargo.toml directly under it fails with INVALID_PATH whatever the store
\* holds under its key, writes nothing, and leaves the in-memory store and
\* the store file as they were, an expired entry under its key included.
ManifestBeforeCache ==
    [][(lastOp'.op \in {"checkDoc", "buildDoc"} /\ ~lastOp'.env.manifest) =>
          /\ lastOp'.out = Err("INVALID_PATH")
          /\ lastOp'.writes = 0
          /\ cache' = cache
          /\ file' = file]_vars

\* a checkDoc that failed with INVALID_PATH while the store held an expired
\* entry under its key, the entry still in the store and in the file
ManifestBeforeCacheWitness ==
    /\ lastOp.op = "checkDoc"
    /\ ~lastOp.env.manifest
    /\ lastOp.out = Err("INVALID_PATH")
    /\ FoundExpired
    /\ LastKey \in DOMAIN cache
    /\ cache[LastKey] = lastOp.pre
    /\ file.kind = "json"
    /\ LastKey \in DOMAIN file.data

\* C38.  A failed build leaves the store alone: a buildDoc (project with
\* manifest) whose cargo exits non-zero fails with BUILD_FAILED, writes
\* nothing, and leaves the in-memory store and the store file as they were:
\* an entry under its key keeps its isBuilt, docPath and lastBuildTime, and
\* without one none is made.
FailedBuildKeepsStore ==
    [][(/\ lastOp'.op = "buildDoc"
        /\ lastOp'.env.manifest
        /\ lastOp'.arg.exit # 0) =>
           /\ lastOp'.out.kind = "err"
           /\ lastOp'.out.code = "BUILD_FAILED"
           /\ lastOp'.build = 1
           /\ lastOp'.writes = 0
           /\ cache' = cache
           /\ file' = file]_vars

\* a buildDoc whose cargo exited non-zero, the isBuilt=true entry an
\* earlier call had left under its key still in the store as it was
FailedBuildKeepsStoreWitness ==
    /\ lastOp.op = "buildDoc"
    /\ lastOp.arg.exit # 0
    /\ lastOp.out.kind = "err"
    /\ lastOp.out.code = "BUILD_FAILED"
    /\ IsEntry(lastOp.pre)
    /\ lastOp.pre.isBuilt
    /\ lastOp.pre.lastBuildTime < lastOp.t
    /\ LastKey \in DOMAIN cache
    /\ cache[LastKey] = lastOp.pre

\* the listSymbols or searchDoc just completed failed in its traversal
TraversalFailed ==
    /\ lastOp.op \in {"listSymbols", "searchDoc"}
    /\ lastOp.readdirs > 0
    /\ lastOp.out.kind = "err"

\* C39.  A failed traversal keeps the entry: a listSymbols or searchDoc that
\* fails in its traversal fails with SEARCH_FAILED and leaves under its key
\* an isBuilt=true entry that has not expired, and when it found that entry
\* it wrote nothing and left the in-memory store and the store file as
\* they were; and a listSymbols or searchDoc (project with manifest) that
\* finds an isBuilt=true entry not expired at its second lookup has its
\* checkDoc answer true without a cargo command, and fails in its traversal
\* whenever the tree has a directory that cannot be listed or, for a
\* searchDoc without limit, a page that cannot be read.
FailedTraversalKeepsEntry ==
    [][lastOp'.op \in {"listSymbols", "searchDoc"} =>
          /\ TraversalFailed' =>
                /\ lastOp'.out.code = "SEARCH_FAILED"
                /\ BuiltAt(cache', getCacheKey(lastOp'.p, lastOp'.c), now')
                /\ BuiltAt(cache, getCacheKey(lastOp'.p, lastOp'.c), now') =>
                      /\ lastOp'.writes = 0
                      /\ cache' = cache
                      /\ file' = file
          /\ (/\ lastOp'.env.manifest
              /\ BuiltAt(cache, getCacheKey(lastOp'.p, lastOp'.c), now')) =>
                /\ lastOp'.status = RetBool(TRUE)
                /\ lastOp'.meta = 0
                /\ lastOp'.build = 0
                /\ UnlistablePlaces' # {} => TraversalFailed'
                /\ (/\ lastOp'.op = "searchDoc"
                    /\ lastOp'.arg.limit = 0
                    /\ UnreadablePlaces' # {}) => TraversalFailed']_vars

\* a searchDoc that failed on a page it could not read, answered from an
\* isBuilt=true entry an earlier call had left, which is in the store
\* afterwards as it was
FailedTraversalKeepsEntryWitness ==
    /\ TraversalFailed
    /\ lastOp.op = "searchDoc"
    /\ lastOp.out.code = "SEARCH_FAILED"
    /\ lastOp.out.details.syscall = "open"
    /\ FoundFresh
    /\ lastOp.pre.isBuilt
    /\ lastOp.pre.lastBuildTime < lastOp.t
    /\ LastKey \in DOMAIN cache
    /\ cache[LastKey] = lastOp.pre

----------------------------------------------------------------------------
(* Properties of DocCache.initialize, checked under SpecCache *)

\* C23.  Initialize: when the store file does not exist, initialize
\* succeeds and leaves an empty store, whatever the memory held; when the
\* file exists and cannot be read, or its text cannot be parsed, initialize
\* fails with CACHE_ERROR.
InitializeOutcome ==
    [][lastOp'.op = "initialize" =>
          /\ file.kind = "absent" =>
                /\ lastOp'.out = Void
                /\ cache' = EmptyStore
                /\ file' = file
          /\ file.kind \in {"unreadable", "corrupt"} =>
                lastOp'.out = Err("CACHE_ERROR")]_vars

\* an initialize that failed on a store file that cannot be read
InitializeOutcomeWitness ==
    /\ lastOp.op = "initialize"
    /\ file.kind = "unreadable"
    /\ lastOp.out = Err("CACHE_ERROR")

\* C24.  Purge at initialize: after an initialize that loads the store
\* file and returns, the in-memory store holds no entry older than
\* CACHE_TTL and holds every entry of the file that is not; the file is
\* rewritten, with the store as it then is, exactly when the file held an
\* entry older than CACHE_TTL.
PurgeAtInitialize ==
    [][(/\ lastOp'.op = "initialize"
        /\ lastOp'.out = Void
        /\ file.kind = "json") =>
          /\ \A k \in DOMAIN cache' : now - cache'[k].lastBuildTime <= CACHE_TTL
          /\ \A k \in DOMAIN file.data :
                now - file.data[k].lastBuildTime <= CACHE_TTL =>
                    (k \in DOMAIN cache' /\ cache'[k] = file.data[k])
          /\ (lastOp'.writes = 1)
               = (\E k \in DOMAIN file.data :
                     now - file.data[k].lastBuildTime > CACHE_TTL)
          /\ lastOp'.writes = 1 => file' = JsonFile(cache')
          /\ lastOp'.writes = 0 => file' = file]_vars

\* an initialize that purged an entry, kept another and rewrote the file
PurgeAtInitializeWitness ==
    /\ lastOp.op = "initialize"
    /\ lastOp.out = Void
    /\ lastOp.writes = 1
    /\ cache # EmptyStore
    /\ file = JsonFile(cache)

\* the entries of a store under the keys other than k
Others(mem, k) == [x \in (DOMAIN mem) \ {k} |-> mem[x]]

\* C32.  Frame of set and remove: a set or remove of (p, c) leaves every
\* entry under a key other than the key of (p, c) as it was in the
\* in-memory store, and when its write succeeds the file holds those same
\* entries under those keys; a remove of a key that is not in the store
\* leaves the in-memory store as it was.
SetRemoveFrame ==
    [][lastOp'.op \in {"set", "remove"} =>
          LET key == lastOp'.p \o ":" \o lastOp'.c IN
          /\ Others(cache', key) = Others(cache, key)
          /\ lastOp'.out = Void =>
                 /\ file'.kind = "json"
                 /\ Others(file'.data, key) = Others(cache, key)
          /\ (lastOp'.op = "remove" /\ key \notin DOMAIN cache) => cache' = cache]_vars

\* a remove of (p, c) after which the store holds an entry under another
\* key, and the file written holds that entry
SetRemoveFrameWitness ==
    /\ lastOp.op = "remove"
    /\ lastOp.out = Void
    /\ Cardinality(DOMAIN cache) = 1
    /\ (lastOp.p \o ":" \o lastOp.c) \notin DOMAIN cache
    /\ file = JsonFile(cache)
    /\ hist = NoHist

\* the store file f holds the entry e under the key k
FileHolds(f, k, e) == f.kind = "json" /\ k \in DOMAIN f.data /\ f.data[k] = e

\* C40.  A set whose write fails: the set fails with CACHE_ERROR, the
\* in-memory store holds the new entry, stamped with the time of the call,
\* and a get made up to CACHE_TTL later returns it; the store file is as
\* it was before the call, or truncated, so that it does not hold the
\* entry unless it held that same entry before.
FailedSetDiverges ==
    [][(lastOp'.op = "set" /\ lastOp'.ws[1] # "ok") =>
          LET key == getCacheKey(lastOp'.p, lastOp'.c)
              e == [lastOp'.arg EXCEPT !.lastBuildTime = lastOp'.t]
          IN /\ lastOp'.out = Err("CACHE_ERROR")
             /\ key \in DOMAIN cache'
             /\ cache'[key] = e
             /\ \A t2 \in Clock :
                    (t2 >= now' /\ t2 - now' <= CACHE_TTL) =>
                        LET g == get(cache', file', t2, lastOp'.p, lastOp'.c, "ok")
                        IN g.err = "none" /\ g.ret = e
             /\ file' \in {file, CorruptFile}
             /\ ~FileHolds(file, key, e) => ~FileHolds(file', key, e)]_vars

\* a set that failed with CACHE_ERROR: the store holds the entry under its
\* key, the file can be read and holds no entry under that key
FailedSetDivergesWitness ==
    /\ lastOp.op = "set"
    /\ lastOp.ws[1] = "fail"
    /\ lastOp.out = Err("CACHE_ERROR")
    /\ LastKey \in DOMAIN cache
    /\ cache[LastKey].isBuilt = lastOp.arg.isBuilt
    /\ cache[LastKey].lastBuildTime = lastOp.t
    /\ file.kind = "json"
    /\ LastKey \notin DOMAIN file.data

----------------------------------------------------------------------------
(* Properties of the processes sharing the store file, checked under       *)
(* SpecAsync                                                               *)

\* the process whose write of the store file ended last has no write of it
\* under way
Settled == wrote.last # 0 /\ \A r \in InFlight(wrote.last) : r.at # "saving"

\* the keys process i holds and the process that wrote last does not
OnlyIn(i) == (DOMAIN procs[i].cache) \ (DOMAIN procs[wrote.last].cache)

Ran(i) ==
    {<<r.p, r.c>> : r \in {x \in (tasks' \ tasks) \cup (tasks \ tasks') : x.proc = i}}

\* C27.  Within one process requests do not interleave: while a request is
\* in flight, started and not yet completed, every step its process runs is
\* a step of that request; no other request of the process starts, moves on
\* or ends.
RunToCompletion ==
    [][\A r \in tasks : Ran(r.proc) \subseteq {<<r.p, r.c>>}]_vars

\* process i is the only one that has started
Alone(i) == \A j \in Procs \ {i} : procs[j].started = "new"

\* C28.  Within one process cache mutations are serialized: when the only
\* process running has written the store file, no write of it has failed and
\* none of its requests is in flight, the file holds exactly its in-memory
\* store.
MutationsSerialized ==
    \A i \in Procs :
        (Alone(i) /\ wrote.last = i /\ ~wrote.failed /\ InFlight(i) = {}) =>
            file = JsonFile(procs[i].cache)

----------------------------------------------------------------------------
(* Properties of RustdocUrl, checked under SpecUrl *)

\* the text begins with the ten characters r u s t d o c : / /
HasScheme(u) ==
    /\ Len(u) >= 10
    /\ <<u[1], u[2], u[3], u[4], u[5], u[6], u[7]>> = <<"r", "u", "s", "t", "d", "o", "c">>
    /\ <<u[8], u[9], u[10]>> = <<":", "/", "/">>

\* C29.  URI round-trip: parse applied to create(p) returns p, for every
\* path p; and parse applied to a text that does not begin with 'rustdoc://'
\* fails with the invalid-format Error.
UriRoundTrip ==
    lastOp.op = "parse" =>
        /\ "docPath" \in DOMAIN lastOp.arg => lastOp.out = RetPath(lastOp.arg.docPath)
        /\ ~HasScheme(lastOp.arg.url) =>
               /\ lastOp.out.kind = "err"
               /\ lastOp.out.message = "Invalid rustdoc URI format"

\* parse has returned a path that itself holds the scheme prefix, from the
\* URI create made of it
UriRoundTripWitness ==
    /\ lastOp.op = "parse"
    /\ "docPath" \in DOMAIN lastOp.arg
    /\ lastOp.arg.docPath = <<"/", "t">> \o Scheme \o <<"/">>
    /\ lastOp.out = RetPath(lastOp.arg.docPath)

====
